---- MODULE Spec2Model ----
(***************************************************************************)
(* amtt: the streaming validating parser of amtt/parser.py.                *)
(*                                                                         *)
(* ExpatContentHandler is a depth-tagged state machine (_mode) over SAX    *)
(* events.  Each element start is checked against TAG_EXPECTED[_mode],     *)
(* its attributes against the Tag scheme of that depth, the values are     *)
(* coerced by the Parser.Attribute subclasses and handed to the sink       *)
(* (data_handler).  Raw attribute values are strings; TLC treats a string  *)
(* as a sequence of one-character strings under Len and SubSeq, which is   *)
(* how the coercers below read them.                                       *)
(***************************************************************************)
EXTENDS Integers, Sequences, FiniteSets, TLC

VARIABLES
    mode,      \* ExpatContentHandler._mode
    sink,      \* which data_handler the handler was constructed with
    result,    \* DCH.result, the list the recording sink appends to
    last,      \* history: the last handler call, its inputs and what it did
    reader     \* the XML reader driving the handler (SpecDoc only)

vars == <<mode, sink, result, last, reader>>

(***************************************************************************)
(* Bounds of the model.                                                    *)
(***************************************************************************)
MaxResult == 3      \* longest DCH.result explored under Spec
MaxEvents == 9      \* most element events one document feeds under SpecDoc
MaxListed == 2      \* largest set of names whose every listing is explored
MaxSunk == 4        \* longest DCH.result explored under SpecCaller
MaxPair == 2        \* longest DCH.result of each of the two handlers of SpecTwo

(***************************************************************************)
(* Python values.                                                          *)
(***************************************************************************)
None == "<None>"

\* list[i] with Python's index rules: 0-based, negative indices count from
\* the end, anything else is an IndexError.
InRange(list, i) == (i >= 0 /\ i < Len(list)) \/ (i < 0 /\ 0 - i <= Len(list))

At(list, i) == IF i >= 0 THEN list[i + 1] ELSE list[Len(list) + i + 1]

Ch(s, i) == SubSeq(s, i, i)

Digits == <<"0", "1", "2", "3", "4", "5", "6", "7", "8", "9">>

IsDigit(c) == \E i \in 1..10 : Digits[i] = c

DigitVal(c) == (CHOOSE i \in 1..10 : Digits[i] = c) - 1

IsDigits(s) == Len(s) > 0 /\ \A i \in 1..Len(s) : IsDigit(Ch(s, i))

RECURSIVE DigitsVal(_)
DigitsVal(s) ==
    IF Len(s) = 0 THEN 0
    ELSE 10 * DigitsVal(SubSeq(s, 1, Len(s) - 1)) + DigitVal(Ch(s, Len(s)))

HasSign(s) == Len(s) > 0 /\ Ch(s, 1) \in {"+", "-"}

Unsigned(s) == IF HasSign(s) THEN SubSeq(s, 2, Len(s)) ELSE s

\* positions of the character c in s
Positions(s, c) == {i \in 1..Len(s) : Ch(s, i) = c}

(***************************************************************************)
(* The coercers: Parser.String, Int, Money, Date, Time.  Each is a pair    *)
(* (can the conversion succeed, the converted value).  The raw strings     *)
(* the model feeds are over digits, letters and the characters + - . / :   *)
(* (no whitespace, underscores or exponents).                              *)
(***************************************************************************)
\* int(value): an optional sign and decimal digits
IntOk(s) == IsDigits(Unsigned(s))

IntVal(s) ==
    IF HasSign(s) /\ Ch(s, 1) = "-" THEN 0 - DigitsVal(Unsigned(s))
    ELSE DigitsVal(Unsigned(s))

\* decimal.Decimal(value): sign, digits with at most one point and at least
\* one digit; the value keeps sign, coefficient and exponent exactly.
DecimalOk(s) ==
    LET u == Unsigned(s)
        p == Positions(u, ".")
    IN  /\ Cardinality(p) <= 1
        /\ \A i \in (1..Len(u)) \ p : IsDigit(Ch(u, i))
        /\ Len(u) - Cardinality(p) >= 1

\* the value read as a binary fraction of three bits, then shown in decimal
DecimalValBinary(s) ==
    LET u == Unsigned(s)
        p == Positions(u, ".")
        k == IF p = {} THEN Len(u) + 1 ELSE CHOOSE i \in p : TRUE
        intpart == SubSeq(u, 1, k - 1)
        fracpart == SubSeq(u, k + 1, Len(u)) \o "000"
        thousandths == DigitsVal(intpart \o SubSeq(fracpart, 1, 3))
    IN  [sign |-> IF HasSign(s) /\ Ch(s, 1) = "-" THEN 1 ELSE 0,
         coefficient |-> (thousandths \div 125) * 125,
         exponent |-> 0 - 3]

DecimalVal(s) ==
    LET u == Unsigned(s)
        p == Positions(u, ".")
        k == IF p = {} THEN Len(u) + 1 ELSE CHOOSE i \in p : TRUE
        intpart == SubSeq(u, 1, k - 1)
        fracpart == SubSeq(u, k + 1, Len(u))
    IN  [sign |-> IF HasSign(s) /\ Ch(s, 1) = "-" THEN 1 ELSE 0,
         coefficient |-> DigitsVal(intpart \o fracpart),
         exponent |-> 0 - Len(fracpart)]

\* 10 ** n
RECURSIVE Pow10(_)
Pow10(n) == IF n = 0 THEN 1 ELSE 10 * Pow10(n - 1)

\* the signed coefficient of the decimal d at the exponent e <= d.exponent
Scaled(d, e) ==
    (IF d.sign = 1 THEN 0 - d.coefficient ELSE d.coefficient) * Pow10(d.exponent - e)

\* Decimal.__add__ (exact: the sums of the model stay within the context's
\* 28 digits): the exponent of the result is the smaller exponent
DecimalAdd(a, b) ==
    LET e == IF a.exponent < b.exponent THEN a.exponent ELSE b.exponent
        sum == Scaled(a, e) + Scaled(b, e)
    IN  [sign |-> IF sum < 0 THEN 1 ELSE 0,
         coefficient |-> IF sum < 0 THEN 0 - sum ELSE sum,
         exponent |-> e]

\* Decimal.__eq__: equal as numbers, whatever the exponents
DecimalEq(a, b) ==
    LET e == IF a.exponent < b.exponent THEN a.exponent ELSE b.exponent
    IN  Scaled(a, e) = Scaled(b, e)

\* the fields of value split at the separator sep
Fields(s, sep) ==
    LET p == Positions(s, sep)
        cut(n) == IF n = 0 THEN 0
                  ELSE IF n > Cardinality(p) THEN Len(s) + 1
                  ELSE CHOOSE i \in p : Cardinality({j \in p : j <= i}) = n
    IN  [n \in 1..(Cardinality(p) + 1) |-> SubSeq(s, cut(n - 1) + 1, cut(n) - 1)]

\* a strptime numeric field of one or two digits
Num12(s) == Len(s) \in {1, 2} /\ IsDigits(s)

IsLeap(y) == (y % 4 = 0) /\ ((y % 100 # 0) \/ (y % 400 = 0))

DaysInMonth(y, m) ==
    IF m = 2 THEN (IF IsLeap(y) THEN 29 ELSE 28)
    ELSE IF m \in {4, 6, 9, 11} THEN 30 ELSE 31

\* datetime.strptime(value, "%d/%m/%Y").date()
DateOk(s) ==
    LET f == Fields(s, "/")
    IN  /\ Len(f) = 3
        /\ Num12(f[1]) /\ DigitsVal(f[1]) \in 1..31
        /\ Num12(f[2]) /\ DigitsVal(f[2]) \in 1..12
        /\ Len(f[3]) = 4 /\ IsDigits(f[3]) /\ DigitsVal(f[3]) >= 1
        /\ DigitsVal(f[1]) <= DaysInMonth(DigitsVal(f[3]), DigitsVal(f[2]))

\* strptime reading the month before the day
DateValMonthFirst(s) ==
    LET f == Fields(s, "/")
    IN  [year |-> DigitsVal(f[3]), month |-> DigitsVal(f[1]), day |-> DigitsVal(f[2])]

DateVal(s) ==
    LET f == Fields(s, "/")
    IN  [year |-> DigitsVal(f[3]), month |-> DigitsVal(f[2]), day |-> DigitsVal(f[1])]

\* datetime.strptime(value, "%H:%M").time()
TimeOk(s) ==
    LET f == Fields(s, ":")
    IN  /\ Len(f) = 2
        /\ Num12(f[1]) /\ DigitsVal(f[1]) \in 0..23
        /\ Num12(f[2]) /\ DigitsVal(f[2]) \in 0..59

TimeVal(s) ==
    LET f == Fields(s, ":")
    IN  [hour |-> DigitsVal(f[1]), minute |-> DigitsVal(f[2])]

\* Attribute._parse of the class type_name: does the conversion succeed
ParseOk(type_name, value) ==
    CASE type_name = "String" -> TRUE
      [] type_name = "Int" -> IntOk(value)
      [] type_name = "Money" -> DecimalOk(value)
      [] type_name = "Date" -> DateOk(value)
      [] type_name = "Time" -> TimeOk(value)

\* Attribute._parse of the class type_name: the typed value
ParseVal(type_name, value) ==
    CASE type_name = "String" -> value
      [] type_name = "Int" -> IntVal(value)
      [] type_name = "Money" -> DecimalVal(value)
      [] type_name = "Date" -> DateVal(value)
      [] type_name = "Time" -> TimeVal(value)

(***************************************************************************)
(* Problems and the other exceptions a handler call can end with.          *)
(***************************************************************************)
Ok == [type |-> "ok"]

UnExpectedTag(name, expected) ==
    [type |-> "UnExpectedTag", name |-> name, expected |-> expected]

BrokenAttributes(unexpected, missed) ==
    [type |-> "BrokenAttributes", unexpected |-> unexpected, missed |-> missed]

AttributeTypeError(name, type_name, value) ==
    [type |-> "AttributeTypeError", name |-> name, type_name |-> type_name,
     value |-> value]

AssertionError == [type |-> "AssertionError"]

IndexError == [type |-> "IndexError"]

NotImplementedError(signature) ==
    [type |-> "NotImplementedError", message |-> signature]

InvalidOperation == [type |-> "InvalidOperation"]

\* "%s" % n for a natural number n
RECURSIVE FormatNat(_)
FormatNat(n) ==
    IF n < 10 THEN Digits[n + 1] ELSE FormatNat(n \div 10) \o Digits[(n % 10) + 1]

\* "%s" % v for a name that may be None
FormatName(v) == IF v = None THEN "None" ELSE v

\* sep.join(list)
RECURSIVE Join(_, _)
Join(list, sep) ==
    IF list = <<>> THEN ""
    ELSE IF Len(list) = 1 THEN list[1]
    ELSE list[1] \o sep \o Join(Tail(list), sep)

\* Problem._problem of the three subclasses
ProblemText(p) ==
    CASE p.type = "UnExpectedTag" ->
            "unexpected tag '" \o FormatName(p.name) \o "', expected '"
                \o FormatName(p.expected) \o "'"
      [] p.type = "BrokenAttributes" ->
            "broken attributes, unexpected=[" \o Join(p.unexpected, ", ")
                \o "], missed=[" \o Join(p.missed, ", ") \o "]"
      [] p.type = "AttributeTypeError" ->
            "parse attribute '" \o p.name \o "' (expected type: '" \o p.type_name
                \o "') invalid value '" \o p.value \o "'"

\* a locator position: the line, and the column in a list that is empty when
\* getColumnNumber() is None (no parse has started)
Position(line, column) == [line |-> line, column |-> column]

FormatColumn(column) == IF column = <<>> THEN "None" ELSE FormatNat(column[1])

\* Problem.__str__ reading the locator when the message is rendered
RenderedAtLocator(p, captured, locator) ==
    "Line: " \o FormatNat(locator.line) \o " Column: " \o FormatColumn(locator.column)
        \o " Problem: " \o ProblemText(p)

\* Problem.__str__ of the problem p whose __init__ captured the position
\* captured, rendered while the locator is at the position locator
Rendered(p, captured, locator) ==
    "Line: " \o FormatNat(captured.line) \o " Column: " \o FormatColumn(captured.column)
        \o " Problem: " \o ProblemText(p)

\* Attribute.parse catching ValueError alone
ParseCatchesValueErrorOnly(ascheme, value) ==
    IF ParseOk(ascheme.type_name, value)
    THEN [error |-> Ok, value |-> ParseVal(ascheme.type_name, value)]
    ELSE IF ascheme.type_name = "Money"
    THEN [error |-> InvalidOperation, value |-> None]
    ELSE [error |-> AttributeTypeError(ascheme.name, ascheme.type_name, value),
          value |-> None]

\* Attribute.parse: the typed value, or AttributeTypeError in place of the
\* conversion's ValueError / decimal.InvalidOperation
Parse(ascheme, value) ==
    IF ParseOk(ascheme.type_name, value)
    THEN [error |-> Ok, value |-> ParseVal(ascheme.type_name, value)]
    ELSE [error |-> AttributeTypeError(ascheme.name, ascheme.type_name, value),
          value |-> None]

(***************************************************************************)
(* The tag schemes: Tag.betfair, Tag.event, Tag.subEvent, Tag.selection.   *)
(***************************************************************************)
Attr(name, type_name) == [name |-> name, type_name |-> type_name]

betfair ==
    [open |-> "startBetfair", close |-> "endBetfair",
     scheme |-> <<Attr("sport", "String")>>]

event ==
    [open |-> "startEvent", close |-> "endEvent",
     scheme |-> <<Attr("name", "String"), Attr("date", "Date")>>]

subEvent ==
    [open |-> "startSubEvent", close |-> "endSubEvent",
     scheme |-> <<Attr("id", "Int"), Attr("title", "String"), Attr("date", "Date"),
                  Attr("time", "Time"), Attr("TotalAmountMatched", "Int")>>]

\* the loops of Tag.selection nested the other way: prefix outermost, then
\* medium, then suffix
MoneyNameSideFirst(k) ==
    LET prefix == <<"back", "lay">>[((k - 1) \div 6) + 1]
        medium == <<"p", "s">>[(((k - 1) \div 3) % 2) + 1]
        suffix == Digits[((k - 1) % 3) + 2]
    IN  prefix \o medium \o suffix

\* the k-th name the loops of Tag.selection append: suffix outermost, then
\* prefix, then medium; name = prefix + medium + suffix
MoneyName(k) ==
    LET suffix == Digits[((k - 1) \div 4) + 2]
        prefix == <<"back", "lay">>[(((k - 1) \div 2) % 2) + 1]
        medium == <<"p", "s">>[((k - 1) % 2) + 1]
    IN  prefix \o medium \o suffix

selection ==
    [open |-> "selection", close |-> "lambda",
     scheme |-> <<Attr("id", "Int"), Attr("name", "String")>>
                \o [k \in 1..12 |-> Attr(MoneyName(k), "Money")]]

(***************************************************************************)
(* amtt/db.py: the columns of the selection table that StoreHandler's      *)
(* selection_insert fills, and the arguments StoreHandler.selection gives  *)
(* it.                                                                     *)
(***************************************************************************)
\* the k-th element of the comprehension: for suffix in 1..3, for prefix in
\* [back, lay], for medium in [p, s]: prefix + medium + suffix
ColumnName(k) ==
    LET suffix == Digits[((k - 1) \div 4) + 2]
        prefix == <<"back", "lay">>[(((k - 1) \div 2) % 2) + 1]
        medium == <<"p", "s">>[((k - 1) % 2) + 1]
    IN  prefix \o medium \o suffix

SELECTION_MONEY_COLUMN_NAMES == [k \in 1..12 |-> ColumnName(k)]

\* the column list of PREPARE selection_insert
SelectionInsertColumns ==
    <<"betfair_id", "event_id", "subevent_id", "id", "name">>
        \o SELECTION_MONEY_COLUMN_NAMES

\* StoreHandler.selection(*args): the parameters of EXECUTE selection_insert
SelectionInsertArgs(betfair_id, event_id, subevent_id, args) ==
    <<betfair_id, event_id, subevent_id>> \o args

MODE_ROOT == 0

\* TAG_EXPECTED with another name for the root element
TAG_EXPECTED_OtherRoot == <<None, "bad", "event", "subevent", "selection">>

TAG_EXPECTED == <<None, "betfair", "event", "subevent", "selection">>

TAG_SCHEME == <<None, betfair, event, subEvent, selection>>

(***************************************************************************)
(* The attribute map of an element (AttributesImpl over a dict): pairs     *)
(* with distinct names, in the order the document gives them.              *)
(***************************************************************************)
getNames(attrs) == {attrs[i].n : i \in DOMAIN attrs}

Contains(attrs, name) == \E i \in DOMAIN attrs : attrs[i].n = name

Get(attrs, name) == attrs[CHOOSE i \in DOMAIN attrs : attrs[i].n = name].v

\* list(a set): the elements in some order; the order of a set of strings
\* is not fixed by the program
Listings(S) ==
    {l \in [1..Cardinality(S) -> S] : \A i, j \in DOMAIN l : l[i] = l[j] => i = j}

(***************************************************************************)
(* The sinks.  DCH records every callback in result; the default           *)
(* UserHandler raises NotImplementedError from every callback.             *)
(***************************************************************************)
Sinks == {"DCH", "UserHandler"}

DCHEntry(cb, args) ==
    CASE cb = "startBetfair" -> <<"start", "betfair", args>>
      [] cb = "startEvent" -> <<"start", "event", args>>
      [] cb = "startSubEvent" -> <<"start", "subEvent", args>>
      [] cb = "selection" -> <<"start", "selection", args>>
      [] cb = "endBetfair" -> <<"end", "betfair", None>>
      [] cb = "endEvent" -> <<"end", "event", None>>
      [] cb = "endSubEvent" -> <<"end", "subEvent", None>>

\* the name_and_signature each UserHandler method hands to __not_implemented
\* (selection passes the text of startSubEvent, endSubEvent has no brackets)
Signature(cb) ==
    CASE cb = "startBetfair" -> "startBetfair(sport)"
      [] cb = "startEvent" -> "startEvent(name, date)"
      [] cb = "startSubEvent" ->
            "startSubEvent(id, title, date, time, totalAmountMathced)"
      [] cb = "selection" -> "startSubEvent(id, name, *money)"
      [] cb = "endBetfair" -> "endBetfair()"
      [] cb = "endEvent" -> "endEvent()"
      [] cb = "endSubEvent" -> "endSubEvent"

\* UserHandler.__not_implemented: "%s.%s" % (class name, name_and_signature)
NotImplementedMessage(cb) == "UserHandler." \o Signature(cb)

\* a sink whose callbacks return without raising
SinkOutcomeSwallowed(s, cb) == Ok

\* what the callback cb of the sink s ends with
SinkOutcome(s, cb) ==
    IF s = "UserHandler" THEN NotImplementedError(NotImplementedMessage(cb)) ELSE Ok

\* the recording list after the callback cb(args) of the sink s
SinkResult(s, res, cb, args) ==
    IF s = "DCH" THEN Append(res, DCHEntry(cb, args)) ELSE res

(***************************************************************************)
(* amtt/db.py: StoreHandler, the sink that writes to the database.  A      *)
(* store st holds the fields of the handler (full, cursor, betfair, event, *)
(* subevent; a stored id is <<>> for None and <<id>> otherwise) and the    *)
(* database as the handler's connection sees it: the serial counters, the  *)
(* keys of the rows of each table, the statements executed with their      *)
(* parameters, and the number of commits.  The database enforces the       *)
(* primary and foreign keys of CREATE.                                     *)
(***************************************************************************)
QUERY_BETFAIR == 0

QUERY_EVENT == 1

QUERY_SUBEVENT == 2

QUERY_SELECTION == 3

IntegrityError == [type |-> "IntegrityError"]

\* StoreHandler.__init__(conn, full) on an empty database
NewStore(full) ==
    [full |-> full, cursor |-> FALSE,
     betfair |-> <<>>, event |-> <<>>, subevent |-> <<>>,
     serial |-> [betfair |-> 0, event |-> 0],
     rows |-> [betfair |-> {}, event |-> {}, subevent |-> {}, selection |-> {}],
     executed |-> <<>>, commits |-> 0]

\* the ids at the head of params are given (not NULL)
Given(params, n) == \A i \in 1..n : params[i] # <<>>

\* the row EXECUTE INSERT[index](params) would add: its table, its key, the
\* key of the parent row it references and the id it returns
Row(st, index, params) ==
    CASE index = QUERY_BETFAIR ->
            [table |-> "betfair", key |-> <<st.serial.betfair + 1>>,
             parent |-> "none", ref |-> <<>>, id |-> st.serial.betfair + 1]
      [] index = QUERY_EVENT ->
            [table |-> "event", key |-> params[1] \o <<st.serial.event + 1>>,
             parent |-> "betfair", ref |-> params[1], id |-> st.serial.event + 1]
      [] index = QUERY_SUBEVENT ->
            [table |-> "subevent", key |-> params[1] \o params[2] \o <<params[3]>>,
             parent |-> "event", ref |-> params[1] \o params[2], id |-> params[3]]
      [] index = QUERY_SELECTION ->
            [table |-> "selection",
             key |-> params[1] \o params[2] \o params[3] \o <<params[4], params[5]>>,
             parent |-> "subevent", ref |-> params[1] \o params[2] \o params[3],
             id |-> params[4]]

\* self._cursor.execute(INSERT[index], params): the statement is recorded;
\* the row is added unless a key column is NULL, the key is taken or the
\* parent row is missing
Execute(st, index, params) ==
    LET row == Row(st, index, params)
        sent == [st EXCEPT !.executed = Append(@, [query |-> index, params |-> params])]
    IN  IF \/ ~Given(params, index)
           \/ row.key \in st.rows[row.table]
           \/ row.parent # "none" /\ row.ref \notin st.rows[row.parent]
        THEN [outcome |-> IntegrityError, store |-> sent, fetched |-> <<>>]
        ELSE [outcome |-> Ok,
              store |-> [sent EXCEPT
                            !.rows[row.table] = @ \cup {row.key},
                            !.serial = IF row.table \in {"betfair", "event"}
                                       THEN [@ EXCEPT ![row.table] = row.id]
                                       ELSE @],
              fetched |-> <<row.id>>]

\* _insert that returns nothing
InsertReturnsNothing(st, index, params) ==
    LET e == Execute(st, index, params)
    IN  [outcome |-> e.outcome, store |-> e.store, returned |-> <<>>]

\* StoreHandler._insert(index, *args): execute, return fetchone()[0]
Insert(st, index, params) ==
    LET e == Execute(st, index, params)
    IN  [outcome |-> e.outcome, store |-> e.store, returned |-> e.fetched]

\* the store after a start callback whose insert i is kept in field
Kept(st, field, i) ==
    IF i.outcome.type = "ok"
    THEN [outcome |-> Ok, store |-> [i.store EXCEPT ![field] = i.returned]]
    ELSE [outcome |-> i.outcome, store |-> i.store]

\* StoreHandler.start(): assert(not self._cursor); open the cursor
StoreStart(st) ==
    IF st.cursor THEN [outcome |-> AssertionError, store |-> st]
    ELSE [outcome |-> Ok, store |-> [st EXCEPT !.cursor = TRUE]]

\* StoreHandler.end(): commit, close the cursor (AttributeError on None)
StoreEnd(st) ==
    IF ~st.cursor
    THEN [outcome |-> [type |-> "AttributeError"],
          store |-> [st EXCEPT !.commits = @ + 1]]
    ELSE [outcome |-> Ok, store |-> [st EXCEPT !.commits = @ + 1, !.cursor = FALSE]]

\* the callback cb(*args) of StoreHandler
StoreCallback(st, cb, args) ==
    CASE cb = "startBetfair" ->
            IF ~st.cursor THEN [outcome |-> AssertionError, store |-> st]
            ELSE Kept(st, "betfair", Insert(st, QUERY_BETFAIR, args))
      [] cb = "startEvent" ->
            IF ~st.cursor THEN [outcome |-> AssertionError, store |-> st]
            ELSE Kept(st, "event", Insert(st, QUERY_EVENT, <<st.betfair>> \o args))
      [] cb = "startSubEvent" ->
            IF ~st.cursor \/ ~st.full THEN [outcome |-> AssertionError, store |-> st]
            ELSE Kept(st, "subevent",
                      Insert(st, QUERY_SUBEVENT, <<st.betfair, st.event>> \o args))
      [] cb = "selection" ->
            IF ~st.cursor \/ ~st.full THEN [outcome |-> AssertionError, store |-> st]
            ELSE LET i == Insert(st, QUERY_SELECTION,
                                 SelectionInsertArgs(st.betfair, st.event,
                                                     st.subevent, args))
                 IN  [outcome |-> i.outcome, store |-> i.store]
      [] cb = "endBetfair" -> [outcome |-> Ok, store |-> [st EXCEPT !.betfair = <<>>]]
      [] cb = "endEvent" -> [outcome |-> Ok, store |-> [st EXCEPT !.event = <<>>]]
      [] cb = "endSubEvent" ->
            IF ~st.full THEN [outcome |-> AssertionError, store |-> st]
            ELSE [outcome |-> Ok, store |-> [st EXCEPT !.subevent = <<>>]]

\* the callback cb(*args) of the sink s: how it ends and what the sink
\* holds afterwards
Callback(s, res, cb, args) ==
    IF s = "StoreHandler" THEN StoreCallback(res, cb, args)
    ELSE [outcome |-> SinkOutcome(s, cb), store |-> SinkResult(s, res, cb, args)]

(***************************************************************************)
(* Tag: _verify_names, _broken_names_report, open.                         *)
(***************************************************************************)
SchemeNames(tag) == {tag.scheme[i].name : i \in DOMAIN tag.scheme}

\* _verify_names without the comparison of lengths
VerifyNamesNoLength(tag, attrs) ==
    \A i \in DOMAIN tag.scheme : Contains(attrs, tag.scheme[i].name)

\* _verify_names comparing the attributes with the scheme position by position
VerifyNamesOrdered(tag, attrs) ==
    /\ Len(tag.scheme) = Len(attrs)
    /\ \A i \in DOMAIN tag.scheme : attrs[i].n = tag.scheme[i].name

\* _verify_names passes: same length and every declared name present
VerifyNames(tag, attrs) ==
    /\ Len(tag.scheme) = Len(attrs)
    /\ \A i \in DOMAIN tag.scheme : Contains(attrs, tag.scheme[i].name)

\* _broken_names_report: the BrokenAttributes it can raise
BrokenNamesReport(tag, attrs) ==
    LET expected == SchemeNames(tag)
        actual == getNames(attrs)
    IN  {BrokenAttributes(unexpected, missed) :
            unexpected \in Listings(actual \ expected),
            missed \in Listings(expected \ actual)}

\* the loop of Tag.open parsing every attribute and reporting the last failure
DecodeReportsLast(tag, attrs, i, values, ran) ==
    LET rest == i..Len(tag.scheme)
        parsed(k) == Parse(tag.scheme[k], Get(attrs, tag.scheme[k].name))
        bad == {k \in rest : parsed(k).error.type # "ok"}
        all == ran \o [k \in 1..(Len(tag.scheme) - i + 1) |-> tag.scheme[i + k - 1].name]
    IN  IF bad = {}
        THEN [error |-> Ok,
              values |-> values \o [k \in 1..(Len(tag.scheme) - i + 1) |->
                                        parsed(i + k - 1).value],
              ran |-> all]
        ELSE [error |-> parsed(CHOOSE k \in bad : \A j \in bad : j <= k).error,
              values |-> values, ran |-> all]

\* the loop of Tag.open from the i-th declared attribute on: the values
\* parsed so far, the coercers that ran, and the error that stopped it
RECURSIVE Decode(_, _, _, _, _)
Decode(tag, attrs, i, values, ran) ==
    IF i > Len(tag.scheme) THEN [error |-> Ok, values |-> values, ran |-> ran]
    ELSE LET ascheme == tag.scheme[i]
             parsed == Parse(ascheme, Get(attrs, ascheme.name))
         IN  IF parsed.error.type # "ok"
             THEN [error |-> parsed.error, values |-> values,
                   ran |-> Append(ran, ascheme.name)]
             ELSE Decode(tag, attrs, i + 1, Append(values, parsed.value),
                         Append(ran, ascheme.name))

\* Tag.open parsing the values it is given before it verifies the names
TagOpenParsesFirst(tag, attrs, s, res) ==
    LET bad == {i \in DOMAIN tag.scheme :
                  /\ Contains(attrs, tag.scheme[i].name)
                  /\ ~ParseOk(tag.scheme[i].type_name, Get(attrs, tag.scheme[i].name))}
    IN  IF bad # {}
        THEN LET i == CHOOSE k \in bad : \A j \in bad : k <= j
             IN  {[outcome |-> Parse(tag.scheme[i], Get(attrs, tag.scheme[i].name)).error,
                   result |-> res, ran |-> <<tag.scheme[i].name>>, invoked |-> <<>>]}
        ELSE IF ~VerifyNames(tag, attrs)
        THEN {[outcome |-> e, result |-> res, ran |-> <<>>, invoked |-> <<>>] :
                e \in BrokenNamesReport(tag, attrs)}
        ELSE LET d == Decode(tag, attrs, 1, <<>>, <<>>)
             IN  {[outcome |-> SinkOutcome(s, tag.open),
                   result |-> SinkResult(s, res, tag.open, d.values),
                   ran |-> d.ran,
                   invoked |-> <<[cb |-> tag.open, args |-> d.values]>>]}

\* Tag.open(attrs) with the sink s whose recording list is res: the ways the
\* call can end
TagOpen(tag, attrs, s, res) ==
    IF ~VerifyNames(tag, attrs)
    THEN {[outcome |-> e, result |-> res, ran |-> <<>>, invoked |-> <<>>] :
            e \in BrokenNamesReport(tag, attrs)}
    ELSE LET d == Decode(tag, attrs, 1, <<>>, <<>>)
         IN  IF d.error.type # "ok"
             THEN {[outcome |-> d.error, result |-> res, ran |-> d.ran,
                    invoked |-> <<>>]}
             ELSE LET c == Callback(s, res, tag.open, d.values)
                  IN  {[outcome |-> c.outcome, result |-> c.store,
                        ran |-> d.ran,
                        invoked |-> <<[cb |-> tag.open, args |-> d.values]>>]}

\* Tag.close() that never reaches the sink
TagCloseSilent(tag, s, res) == [outcome |-> Ok, result |-> res, invoked |-> <<>>]

\* Tag.close() with the sink s: the close callback, or the no-op lambda of
\* a selection
TagClose(tag, s, res) ==
    IF tag.close = "lambda"
    THEN [outcome |-> Ok, result |-> res, invoked |-> <<>>]
    ELSE LET c == Callback(s, res, tag.close, <<>>)
         IN  [outcome |-> c.outcome, result |-> c.store,
              invoked |-> <<[cb |-> tag.close, args |-> <<>>]>>]

(***************************************************************************)
(* ExpatContentHandler.  Each operator gives the ways a call made in mode  *)
(* m can end: the new mode, the recording list, the outcome, the coercers  *)
(* that ran and the sink callbacks invoked.                                *)
(***************************************************************************)
Raise(m, res, e) ==
    [mode |-> m, result |-> res, outcome |-> e, ran |-> <<>>, invoked |-> <<>>]

\* startDocument without its assertion
startDocumentNoAssert(m, res) == Raise(MODE_ROOT + 1, res, Ok)

\* startDocument: assert(self._mode == MODE_ROOT); self._mode = MODE_ROOT+1
startDocument(m, res) ==
    IF m # MODE_ROOT THEN Raise(m, res, AssertionError)
    ELSE Raise(MODE_ROOT + 1, res, Ok)

\* endDocument asserting only that a document is open
endDocumentAnyDepth(m, res) ==
    IF m < MODE_ROOT + 1 THEN Raise(m, res, AssertionError)
    ELSE Raise(MODE_ROOT, res, Ok)

\* endDocument that asserts and leaves the mode as it is
endDocumentKeepsMode(m, res) ==
    IF m # MODE_ROOT + 1 THEN Raise(m, res, AssertionError)
    ELSE Raise(m, res, Ok)

\* endDocument: assert(self._mode == MODE_ROOT+1); self._mode = MODE_ROOT
endDocument(m, res) ==
    IF m # MODE_ROOT + 1 THEN Raise(m, res, AssertionError)
    ELSE Raise(MODE_ROOT, res, Ok)

\* the mode incremented before Tag.open is called
ModeIncrementedFirst(m, e) == m + 1

\* the mode after a Tag.open that ended with outcome e
ModeAfterOpen(m, e) == IF e.type = "ok" THEN m + 1 ELSE m

\* startElement moving past the element it rejects
startElementAdvancesOnProblem(m, s, res, name, attrs) ==
    IF ~InRange(TAG_EXPECTED, m) THEN {Raise(m, res, IndexError)}
    ELSE LET expected == At(TAG_EXPECTED, m)
         IN  IF expected # name
             THEN {Raise(m + 1, res, UnExpectedTag(name, expected))}
             ELSE {[mode |-> m + 1, result |-> r.result,
                    outcome |-> r.outcome, ran |-> r.ran, invoked |-> r.invoked] :
                      r \in TagOpen(At(TAG_SCHEME, m), attrs, s, res)}

\* startElement(name, attrs)
startElement(m, s, res, name, attrs) ==
    IF ~InRange(TAG_EXPECTED, m) THEN {Raise(m, res, IndexError)}
    ELSE LET expected == At(TAG_EXPECTED, m)
         IN  IF expected # name
             THEN {Raise(m, res, UnExpectedTag(name, expected))}
             ELSE {[mode |-> ModeAfterOpen(m, r.outcome), result |-> r.result,
                    outcome |-> r.outcome, ran |-> r.ran, invoked |-> r.invoked] :
                      r \in TagOpen(At(TAG_SCHEME, m), attrs, s, res)}

\* endElement calling the close callback before it decrements the mode
endElementCloseFirst(m, s, res, name) ==
    IF ~InRange(TAG_EXPECTED, m - 1) THEN Raise(m, res, IndexError)
    ELSE IF At(TAG_EXPECTED, m - 1) # name THEN Raise(m, res, AssertionError)
    ELSE LET r == TagClose(At(TAG_SCHEME, m - 1), s, res)
         IN  [mode |-> IF r.outcome.type = "ok" THEN m - 1 ELSE m,
              result |-> r.result, outcome |-> r.outcome,
              ran |-> <<>>, invoked |-> r.invoked]

\* endElement that forgets to decrement the mode
endElementKeepsMode(m, s, res, name) ==
    IF ~InRange(TAG_EXPECTED, m - 1) THEN Raise(m, res, IndexError)
    ELSE IF At(TAG_EXPECTED, m - 1) # name THEN Raise(m, res, AssertionError)
    ELSE LET r == TagClose(At(TAG_SCHEME, m - 1), s, res)
         IN  [mode |-> m, result |-> r.result, outcome |-> r.outcome,
              ran |-> <<>>, invoked |-> r.invoked]

\* endElement closing the tag of the depth it leaves, not the one it returns to
endElementClosesOldDepth(m, s, res, name) ==
    IF ~InRange(TAG_EXPECTED, m - 1) \/ ~InRange(TAG_SCHEME, m)
    THEN Raise(m, res, IndexError)
    ELSE IF At(TAG_EXPECTED, m - 1) # name THEN Raise(m, res, AssertionError)
    ELSE IF m = MODE_ROOT THEN Raise(m - 1, res, Ok)
    ELSE LET r == TagClose(At(TAG_SCHEME, m), s, res)
         IN  [mode |-> m - 1, result |-> r.result, outcome |-> r.outcome,
              ran |-> <<>>, invoked |-> r.invoked]

\* endElement(name): the mode is decremented before the close callback runs
endElement(m, s, res, name) ==
    IF ~InRange(TAG_EXPECTED, m - 1) THEN Raise(m, res, IndexError)
    ELSE IF At(TAG_EXPECTED, m - 1) # name THEN Raise(m, res, AssertionError)
    ELSE LET r == TagClose(At(TAG_SCHEME, m - 1), s, res)
         IN  [mode |-> m - 1, result |-> r.result, outcome |-> r.outcome,
              ran |-> <<>>, invoked |-> r.invoked]

(***************************************************************************)
(* The inputs: element names and attribute maps.  The maps of a tag are    *)
(* the attributes of the reference document and its perturbations: another *)
(* order, names dropped and added, undecodable values.                     *)
(***************************************************************************)
Tags == {"betfair", "event", "subevent", "selection"}

TagNames == Tags \cup {"bad"}

TagOf(name) ==
    CASE name = "betfair" -> betfair
      [] name = "event" -> event
      [] name = "subevent" -> subEvent
      [] name = "selection" -> selection

BaseValues(name) ==
    CASE name = "betfair" -> <<"Soccer">>
      [] name = "event" -> <<"X", "13/09/2013">>
      [] name = "subevent" -> <<"1", "T", "13/09/2013", "12:43", "100">>
      [] name = "selection" -> <<"1", "S", "1.1", "2", "1.2", "3", "1.3", "4",
                                 "1.4", "5", "1.5", "6", "1.6", "7">>

\* the attribute names of the elements of the reference document, in
\* document order
DocNames(name) ==
    CASE name = "betfair" -> <<"sport">>
      [] name = "event" -> <<"name", "date">>
      [] name = "subevent" -> <<"id", "title", "date", "time", "TotalAmountMatched">>
      [] name = "selection" -> <<"id", "name", "backp1", "backs1", "layp1", "lays1",
                                 "backp2", "backs2", "layp2", "lays2",
                                 "backp3", "backs3", "layp3", "lays3">>

Base(name) ==
    [i \in DOMAIN DocNames(name) |->
        [n |-> DocNames(name)[i], v |-> BaseValues(name)[i]]]

Reverse(a) == [i \in DOMAIN a |-> a[Len(a) + 1 - i]]

Drop(a, i) == SubSeq(a, 1, i - 1) \o SubSeq(a, i + 1, Len(a))

SetVal(a, i, v) == [a EXCEPT ![i].v = v]

Extra1 == [n |-> "bad", v |-> "value2"]

Extra2 == [n |-> "worse", v |-> "value3"]

\* an undecodable raw value for each coercer ("fail" for the String coercer,
\* which accepts it)
BadValues(type_name) ==
    CASE type_name = "String" -> {}
      [] type_name = "Int" -> {"fail", "1.5"}
      [] type_name = "Money" -> {"fail", "1.2.3"}
      [] type_name = "Date" -> {"fail", "32/13/2020", "31/02/2013"}
      [] type_name = "Time" -> {"fail", "25:99"}

BadAt(name, i) == BadValues(TagOf(name).scheme[i].type_name)

Min(a, b) == IF a < b THEN a ELSE b

NameVariants(a) ==
    {a, Reverse(a), Drop(a, 1), Drop(a, Len(a)), Append(a, Extra1),
     Append(Drop(a, 1), Extra1), <<Extra1>> \o Drop(a, Len(a)),
     a \o <<Extra1, Extra2>>, <<Extra2, Extra1>> \o a, <<>>}
    \cup (IF Len(a) >= 2
          THEN {Drop(Drop(a, 1), 1), Reverse(Drop(Drop(a, 1), 1)),
                SetVal(Drop(Drop(a, 1), 1) \o <<Extra1, Extra2>>, 1, "fail")}
          ELSE {})

ValueVariants(name) ==
    LET a == Base(name)
    IN  UNION {{SetVal(a, i, v) : v \in BadAt(name, i)} : i \in DOMAIN a}

\* two undecodable values in one map
TwoBad(name) ==
    LET a == Base(name)
        bad == {i \in 1..Min(Len(a), 5) : BadAt(name, i) # {}}
    IN  {SetVal(SetVal(a, p[1], "fail"), p[2], "fail") :
            p \in {q \in bad \X bad : q[1] < q[2]}}

Variants(name) == NameVariants(Base(name)) \cup ValueVariants(name) \cup TwoBad(name)

\* the names in which attrs differs from the scheme of the tag name are few
\* enough to list in every order
Listable(name, attrs) ==
    name \in Tags =>
        /\ Cardinality(getNames(attrs) \ SchemeNames(TagOf(name))) <= MaxListed
        /\ Cardinality(SchemeNames(TagOf(name)) \ getNames(attrs)) <= MaxListed

\* the element starts fed to the handler: every variant under its own tag
\* name, and a few maps under every name
Inputs ==
    {in \in
        {<<name, attrs>> : name \in TagNames,
                           attrs \in {Base(t) : t \in Tags}
                                     \cup {<<>>, <<Extra1>>,
                                           SetVal(Base("event"), 2, "fail")}}
        \cup UNION {{<<name, attrs>> : attrs \in Variants(name)} : name \in Tags} :
     Listable(in[1], in[2])}

(***************************************************************************)
(* Spec: a caller makes any handler call in any state.                     *)
(***************************************************************************)
NoCall ==
    [op |-> "init", name |-> None, attrs |-> <<>>, before |-> MODE_ROOT,
     outcome |-> Ok, ran |-> <<>>, invoked |-> <<>>]

Idle == [phase |-> "idle", open |-> <<>>, events |-> <<>>]

\* ExpatContentHandler.__init__ with a fresh sink
Init ==
    /\ mode = MODE_ROOT
    /\ sink \in Sinks
    /\ result = <<>>
    /\ last = NoCall
    /\ reader = Idle

\* the handler call op(name, attrs) ending as r
Call(op, name, attrs, r) ==
    /\ mode' = r.mode
    /\ result' = r.result
    /\ last' = [op |-> op, name |-> name, attrs |-> attrs, before |-> mode,
                outcome |-> r.outcome, ran |-> r.ran, invoked |-> r.invoked]
    /\ UNCHANGED sink

StartDocument ==
    /\ Call("startDocument", None, <<>>, startDocument(mode, result))
    /\ UNCHANGED reader

EndDocument ==
    /\ Call("endDocument", None, <<>>, endDocument(mode, result))
    /\ UNCHANGED reader

StartElement ==
    /\ \E in \in Inputs :
         \E r \in startElement(mode, sink, result, in[1], in[2]) :
            /\ Len(r.result) <= MaxResult
            /\ Call("startElement", in[1], in[2], r)
    /\ UNCHANGED reader

EndElement ==
    /\ \E name \in TagNames :
         LET r == endElement(mode, sink, result, name)
         IN  /\ Len(r.result) <= MaxResult
             /\ Call("endElement", name, <<>>, r)
    /\ UNCHANGED reader

Next == StartDocument \/ EndDocument \/ StartElement \/ EndElement

Spec == Init /\ [][Next]_vars

(***************************************************************************)
(* SpecDoc: the XML reader of make_parser parses one document and drives   *)
(* the handler with its events.  The document is well-formed XML (one      *)
(* root element, properly paired tags); an exception from the handler      *)
(* unwinds through the reader and ends the parse.                          *)
(***************************************************************************)
DocInputs ==
    {in \in Inputs :
        in[2] \in {Base(t) : t \in Tags}
                  \cup {Reverse(Base("subevent")), <<Extra1>>,
                        SetVal(Base("event"), 2, "fail")}}

\* the reader after a handler call that ended with outcome e
Fed(e, open, ev) ==
    IF e.type = "ok"
    THEN [phase |-> "parsing", open |-> open, events |-> Append(reader.events, ev)]
    ELSE [reader EXCEPT !.phase = "aborted"]

ReaderStartDocument ==
    /\ reader.phase = "idle"
    /\ LET r == startDocument(mode, result)
       IN  /\ Call("startDocument", None, <<>>, r)
           /\ reader' = [reader EXCEPT !.phase =
                            IF r.outcome.type = "ok" THEN "parsing" ELSE "aborted"]

ReaderStartElement ==
    /\ reader.phase = "parsing"
    /\ reader.open # <<>> \/ reader.events = <<>>
    /\ Len(reader.events) < MaxEvents
    /\ \E in \in DocInputs :
         \E r \in startElement(mode, sink, result, in[1], in[2]) :
            /\ Call("startElement", in[1], in[2], r)
            /\ reader' = Fed(r.outcome, Append(reader.open, in[1]),
                             [kind |-> "start", name |-> in[1], attrs |-> in[2]])

ReaderEndElement ==
    /\ reader.phase = "parsing"
    /\ reader.open # <<>>
    /\ Len(reader.events) < MaxEvents
    /\ LET name == reader.open[Len(reader.open)]
           r == endElement(mode, sink, result, name)
       IN  /\ Call("endElement", name, <<>>, r)
           /\ reader' = Fed(r.outcome, SubSeq(reader.open, 1, Len(reader.open) - 1),
                            [kind |-> "end", name |-> name, attrs |-> <<>>])

ReaderEndDocument ==
    /\ reader.phase = "parsing"
    /\ reader.open = <<>>
    /\ reader.events # <<>>
    /\ LET r == endDocument(mode, result)
       IN  /\ Call("endDocument", None, <<>>, r)
           /\ reader' = [reader EXCEPT !.phase =
                            IF r.outcome.type = "ok" THEN "done" ELSE "aborted"]

NextDoc ==
    ReaderStartDocument \/ ReaderStartElement \/ ReaderEndElement \/ ReaderEndDocument

SpecDoc == Init /\ [][NextDoc]_vars

(***************************************************************************)
(* SpecCaller: a caller drives the handler's API directly, as              *)
(* TestExpatContentHandlerAPI does, making any call in any state.  The     *)
(* caller remembers the call before the last one (prev), the elements it   *)
(* has had accepted and not yet closed (open), and the names of the        *)
(* elements accepted while none was open since the last startDocument      *)
(* (roots).                                                                *)
(***************************************************************************)
\* the element starts the caller makes: each element of the reference
\* document, an unknown tag, and one element for each kind of Problem
CallerInputs ==
    {<<t, Base(t)>> : t \in Tags}
        \cup {<<"bad", Base("betfair")>>,
              <<"betfair", <<Extra1>>>>,
              <<"event", SetVal(Base("event"), 2, "fail")>>,
              <<"subevent", Reverse(Base("subevent"))>>}

PrevOf(call) ==
    [op |-> call.op, name |-> call.name, before |-> call.before,
     type |-> call.outcome.type]

InitCaller ==
    /\ mode = MODE_ROOT
    /\ sink \in Sinks
    /\ result = <<>>
    /\ last = NoCall
    /\ reader = [phase |-> "caller", open |-> <<>>, events |-> <<>>,
                 roots |-> <<>>, prev |-> PrevOf(NoCall)]

\* the caller's notes after its call: last becomes prev
Noted(open, roots) ==
    reader' = [reader EXCEPT !.open = open, !.roots = roots, !.prev = PrevOf(last)]

CallerStartDocument ==
    LET r == startDocument(mode, result)
    IN  /\ Call("startDocument", None, <<>>, r)
        /\ IF r.outcome.type = "ok" THEN Noted(<<>>, <<>>)
                                    ELSE Noted(reader.open, reader.roots)

CallerEndDocument ==
    /\ Call("endDocument", None, <<>>, endDocument(mode, result))
    /\ Noted(reader.open, reader.roots)

CallerStartElement ==
    \E in \in CallerInputs :
        \E r \in startElement(mode, sink, result, in[1], in[2]) :
            /\ Len(r.result) <= MaxSunk
            /\ Call("startElement", in[1], in[2], r)
            /\ IF r.outcome.type = "ok"
               THEN Noted(Append(reader.open, in[1]),
                          IF reader.open = <<>> THEN Append(reader.roots, in[1])
                                                ELSE reader.roots)
               ELSE Noted(reader.open, reader.roots)

CallerEndElement ==
    \E name \in TagNames :
        LET r == endElement(mode, sink, result, name)
        IN  /\ Len(r.result) <= MaxSunk
            /\ Call("endElement", name, <<>>, r)
            /\ IF r.outcome.type = "ok" /\ reader.open # <<>>
               THEN Noted(SubSeq(reader.open, 1, Len(reader.open) - 1), reader.roots)
               ELSE Noted(reader.open, reader.roots)

NextCaller ==
    CallerStartDocument \/ CallerEndDocument \/ CallerStartElement \/ CallerEndElement

SpecCaller == InitCaller /\ [][NextCaller]_vars

(***************************************************************************)
(* SpecTwo: two ExpatContentHandler instances, each with its own recording *)
(* sink, are driven with interleaved calls; instance i receives the calls  *)
(* of document i.  mode and result hold one value for each instance.  The  *)
(* history keeps, for comparison, a handler driven alone with the calls of *)
(* document i (alone[i]) and one instance that is given the calls of both  *)
(* documents (shared).                                                     *)
(***************************************************************************)
\* self._mode of the instance i, were _mode an attribute of the class
ModeOfShared(modes, i) == modes[1]

\* self._mode of the instance i
ModeOf(modes, i) == modes[i]

\* the ways the call op(name, attrs) of a handler in mode m can end
Handle(op, m, s, res, name, attrs) ==
    CASE op = "startDocument" -> {startDocument(m, res)}
      [] op = "endDocument" -> {endDocument(m, res)}
      [] op = "startElement" -> startElement(m, s, res, name, attrs)
      [] op = "endElement" -> {endElement(m, s, res, name)}

TwoInputs ==
    {<<"betfair", Base("betfair")>>, <<"event", Base("event")>>,
     <<"bad", Base("betfair")>>, <<"event", SetVal(Base("event"), 2, "fail")>>}

Lone == [mode |-> MODE_ROOT, result |-> <<>>]

InitTwo ==
    /\ mode = <<MODE_ROOT, MODE_ROOT>>
    /\ sink = "DCH"
    /\ result = <<<<>>, <<>>>>
    /\ last = NoCall
    /\ reader = [phase |-> "two", open |-> <<>>, events |-> <<>>,
                 alone |-> <<Lone, Lone>>, shared |-> Lone,
                 aloneOutcome |-> Ok, sharedOutcome |-> Ok]

\* the instance i is called; so are the lone handler i and the shared one
TwoCall(i, op, name, attrs) ==
    \E r \in Handle(op, ModeOf(mode, i), sink, result[i], name, attrs),
       a \in Handle(op, reader.alone[i].mode, sink, reader.alone[i].result, name, attrs),
       c \in Handle(op, reader.shared.mode, sink, reader.shared.result, name, attrs) :
        /\ Len(r.result) <= MaxPair
        /\ Len(c.result) <= MaxPair
        /\ mode' = [mode EXCEPT ![i] = r.mode]
        /\ result' = [result EXCEPT ![i] = r.result]
        /\ last' = [op |-> op, name |-> name, attrs |-> attrs,
                    before |-> ModeOf(mode, i), outcome |-> r.outcome,
                    ran |-> r.ran, invoked |-> r.invoked, instance |-> i]
        /\ reader' = [reader EXCEPT
                        !.alone[i] = [mode |-> a.mode, result |-> a.result],
                        !.shared = [mode |-> c.mode, result |-> c.result],
                        !.aloneOutcome = a.outcome,
                        !.sharedOutcome = c.outcome]
        /\ UNCHANGED sink

TwoStartDocument == \E i \in 1..2 : TwoCall(i, "startDocument", None, <<>>)

TwoEndDocument == \E i \in 1..2 : TwoCall(i, "endDocument", None, <<>>)

TwoStartElement ==
    \E i \in 1..2 : \E in \in TwoInputs : TwoCall(i, "startElement", in[1], in[2])

TwoEndElement ==
    \E i \in 1..2 : \E name \in {"betfair", "event"} :
        TwoCall(i, "endElement", name, <<>>)

NextTwo == TwoStartDocument \/ TwoEndDocument \/ TwoStartElement \/ TwoEndElement

SpecTwo == InitTwo /\ [][NextTwo]_vars

(***************************************************************************)
(* SpecProblem: the handler is called while the reader's locator moves     *)
(* through the document; a Problem raised by a call is later rendered by   *)
(* str().                                                                  *)
(***************************************************************************)
\* the positions the locator takes: (1, None) before a parse has started
Positions2D ==
    {Position(1, <<>>), Position(1, <<0>>), Position(2, <<7>>), Position(12, <<10>>)}

ProblemInputs ==
    CallerInputs \cup {<<"event", <<Extra1, Extra2>>>>}

\* Problem.__init__: self.line, self.column
Captured(locator) ==
    Position(locator.line, locator.column)

InitProblem ==
    /\ mode = MODE_ROOT
    /\ sink = "DCH"
    /\ result = <<>>
    /\ last = NoCall
    /\ reader = [phase |-> "locator", open |-> <<>>, events |-> <<>>,
                 locator |-> Position(1, <<>>)]

\* the reader reads on
LocatorMoves ==
    /\ \E p \in Positions2D \ {Position(1, <<>>)} :
         /\ p # reader.locator
         /\ reader' = [reader EXCEPT !.locator = p]
    /\ UNCHANGED <<mode, sink, result, last>>

\* the handler call op(name, attrs) ending as r while the locator is where
\* it is: a Problem captures the position
Located(op, name, attrs, r) ==
    /\ Len(r.result) <= MaxResult
    /\ mode' = r.mode
    /\ result' = r.result
    /\ last' = [op |-> op, name |-> name, attrs |-> attrs, before |-> mode,
                outcome |-> r.outcome, ran |-> r.ran, invoked |-> r.invoked,
                at |-> reader.locator,
                captured |-> Captured(reader.locator),
                rendered |-> None]
    /\ UNCHANGED <<sink, reader>>

LocatedStartDocument ==
    Located("startDocument", None, <<>>, startDocument(mode, result))

LocatedStartElement ==
    \E in \in ProblemInputs :
        \E r \in startElement(mode, sink, result, in[1], in[2]) :
            Located("startElement", in[1], in[2], r)

LocatedEndElement ==
    \E name \in Tags : Located("endElement", name, <<>>, endElement(mode, sink, result, name))

\* str(problem) for the Problem the last call raised
ProblemStr ==
    /\ last.op = "startElement"
    /\ last.outcome.type \in {"UnExpectedTag", "BrokenAttributes", "AttributeTypeError"}
    /\ last.rendered = None
    /\ last' = [last EXCEPT !.rendered =
                    Rendered(last.outcome, last.captured, reader.locator)]
    /\ UNCHANGED <<mode, sink, result, reader>>

NextProblem ==
    LocatorMoves \/ LocatedStartDocument \/ LocatedStartElement
        \/ LocatedEndElement \/ ProblemStr

SpecProblem == InitProblem /\ [][NextProblem]_vars

(***************************************************************************)
(* SpecParse: a coercer is created for an attribute and parse(value) is    *)
(* called on a raw string, as the TestParser classes do; a Money that was  *)
(* returned is then added to another Decimal.                              *)
(***************************************************************************)
CoercerTypes == {"String", "Int", "Money", "Date", "Time"}

RawStrings ==
    {"fail", "some", "X", "", "123", "+5", "-5", "007", "-", "1.5", "123.54",
     "1.", "-.5", ".", "1.2.3", "2", "13/09/2013", "1/9/2013", "0/9/2013",
     "31/02/2013", "29/02/2012", "29/02/2013", "13/09/0000", "32/13/2020",
     "13/9", "12:43", "1:5", "24:00", "12:60", "25:99", "0:00"}

\* the Decimals a returned Money is added to
Addends == {[sign |-> 0, coefficient |-> 1, exponent |-> 0 - 2],
            [sign |-> 1, coefficient |-> 5, exponent |-> 0 - 1]}

InitParse ==
    /\ mode = MODE_ROOT
    /\ sink = "DCH"
    /\ result = <<>>
    /\ last = NoCall
    /\ reader = [phase |-> "coercer", open |-> <<>>, events |-> <<>>]

\* Parser.<type_name>(locator, "name").parse(raw)
ParseAttribute ==
    /\ \E type_name \in CoercerTypes, raw \in RawStrings :
         LET r == Parse(Attr("name", type_name), raw)
         IN  last' = [op |-> "parse", name |-> "name", type_name |-> type_name,
                      raw |-> raw, attrs |-> <<>>, before |-> mode,
                      outcome |-> r.error, returned |-> r.value,
                      ran |-> <<"name">>, invoked |-> <<>>]
    /\ UNCHANGED <<mode, sink, result, reader>>

\* money + addend for the Money the last parse returned
MoneyAdd ==
    /\ last.op = "parse"
    /\ last.type_name = "Money"
    /\ last.outcome.type = "ok"
    /\ \E addend \in Addends :
         last' = [last EXCEPT !.op = "add",
                              !.attrs = <<last.returned, addend>>,
                              !.returned = DecimalAdd(last.returned, addend)]
    /\ UNCHANGED <<mode, sink, result, reader>>

NextParse == ParseAttribute \/ MoneyAdd

SpecParse == InitParse /\ [][NextParse]_vars

(***************************************************************************)
(* Vocabulary of the properties below.                                     *)
(***************************************************************************)
\* the sink operations the interface names for each element
OpenCallback(name) ==
    CASE name = "betfair" -> "startBetfair"
      [] name = "event" -> "startEvent"
      [] name = "subevent" -> "startSubEvent"
      [] name = "selection" -> "selection"

CloseCallback(name) ==
    CASE name = "betfair" -> "endBetfair"
      [] name = "event" -> "endEvent"
      [] name = "subevent" -> "endSubEvent"

\* the attributes each element declares, in declaration order
Declared(name) ==
    CASE name = "betfair" -> <<"sport">>
      [] name = "event" -> <<"name", "date">>
      [] name = "subevent" -> <<"id", "title", "date", "time", "TotalAmountMatched">>
      [] name = "selection" -> <<"id", "name", "backp1", "backs1", "layp1", "lays1",
                                 "backp2", "backs2", "layp2", "lays2",
                                 "backp3", "backs3", "layp3", "lays3">>

DeclaredType(name, attr) ==
    IF attr \in {"sport", "name", "title"} THEN "String"
    ELSE IF attr \in {"id", "TotalAmountMatched"} THEN "Int"
    ELSE IF attr = "date" THEN "Date"
    ELSE IF attr = "time" THEN "Time"
    ELSE "Money"

DeclaredNames(name) == {Declared(name)[i] : i \in DOMAIN Declared(name)}

Range(l) == {l[i] : i \in DOMAIN l}

\* the last call was a startElement that named the tag expected in its mode
StartedExpected ==
    /\ last.op = "startElement"
    /\ InRange(TAG_EXPECTED, last.before)
    /\ At(TAG_EXPECTED, last.before) = last.name

\* the decoded values of the last element start, in declaration order
DecodedArgs(name, attrs) ==
    [i \in DOMAIN Declared(name) |->
        ParseVal(DeclaredType(name, Declared(name)[i]), Get(attrs, Declared(name)[i]))]

Undecodable(name, attrs) ==
    {a \in DeclaredNames(name) : ~ParseOk(DeclaredType(name, a), Get(attrs, a))}

\* the element the document has open innermost
Innermost == IF reader.open = <<>> THEN None ELSE reader.open[Len(reader.open)]

(***************************************************************************)
(* C1.  For every depth, an element start whose tag name differs from the  *)
(* tag expected at that depth raises UnExpectedTag carrying (observed      *)
(* name, expected name) and invokes no sink callback.  While a selection   *)
(* is open no tag is expected; the expected name is then None.             *)
(***************************************************************************)
ExpectedAt(depth) == IF depth \in 1..4 THEN TAG_EXPECTED[depth + 1] ELSE None

\* C1: a start with an unexpected name ends with UnExpectedTag, no sink call
C1_WrongTagRaisesUnExpectedTag ==
    (last.op = "startElement" /\ last.name # ExpectedAt(last.before))
        => /\ last.outcome = UnExpectedTag(last.name, ExpectedAt(last.before))
           /\ last.invoked = <<>>
           /\ mode = last.before

(***************************************************************************)
(* C2.  An attribute map whose name set differs from the declared name set *)
(* makes Tag.open raise BrokenAttributes with unexpected = provided minus  *)
(* declared and missed = declared minus provided, exactly; no coercer runs *)
(* and no sink callback is invoked.                                        *)
(***************************************************************************)
C2_BrokenAttributesExact ==
    (StartedExpected /\ getNames(last.attrs) # DeclaredNames(last.name))
        => /\ last.outcome.type = "BrokenAttributes"
           /\ Range(last.outcome.unexpected) = getNames(last.attrs) \ DeclaredNames(last.name)
           /\ Len(last.outcome.unexpected) = Cardinality(Range(last.outcome.unexpected))
           /\ Range(last.outcome.missed) = DeclaredNames(last.name) \ getNames(last.attrs)
           /\ Len(last.outcome.missed) = Cardinality(Range(last.outcome.missed))
           /\ last.ran = <<>>
           /\ last.invoked = <<>>

C2_Witness ==
    /\ StartedExpected
    /\ last.name = "subevent"
    /\ last.outcome.type = "BrokenAttributes"
    /\ Len(last.outcome.unexpected) = 2
    /\ Len(last.outcome.missed) = 2

(***************************************************************************)
(* C3.  An element start with the expected tag and exactly the declared    *)
(* attribute names, one of whose values fails its declared coercion,       *)
(* raises AttributeTypeError carrying that attribute's name, its declared  *)
(* type name and the raw value; the sink's open callback is not invoked.   *)
(***************************************************************************)
C3_UndecodableValueRaisesTypeError ==
    (/\ StartedExpected
     /\ getNames(last.attrs) = DeclaredNames(last.name)
     /\ Undecodable(last.name, last.attrs) # {})
        => /\ last.outcome.type = "AttributeTypeError"
           /\ last.outcome.name \in Undecodable(last.name, last.attrs)
           /\ last.outcome.type_name = DeclaredType(last.name, last.outcome.name)
           /\ last.outcome.value = Get(last.attrs, last.outcome.name)
           /\ last.invoked = <<>>
           /\ mode = last.before

C3_Witness ==
    /\ StartedExpected
    /\ last.name = "subevent"
    /\ last.outcome = AttributeTypeError("time", "Time", "25:99")

(***************************************************************************)
(* C4.  A successful startElement invokes the open callback of the tag of  *)
(* the current depth exactly once, with the decoded values as positional   *)
(* arguments in declaration order whatever the order of the attribute map, *)
(* and increments the depth by one only after the callback has returned:   *)
(* a callback that raises leaves the depth as it was.                      *)
(***************************************************************************)
C4_OpenCallbackThenIncrement ==
    /\ (last.op = "startElement" /\ last.outcome.type = "ok")
          => /\ last.invoked = <<[cb |-> OpenCallback(last.name),
                                  args |-> DecodedArgs(last.name, last.attrs)]>>
             /\ mode = last.before + 1
             /\ sink = "DCH" =>
                  /\ result # <<>>
                  /\ result[Len(result)] =
                        DCHEntry(OpenCallback(last.name),
                                 DecodedArgs(last.name, last.attrs))
    /\ (last.op = "startElement" /\ last.invoked # <<>> /\ last.outcome.type # "ok")
          => mode = last.before

C4_Witness ==
    /\ last.op = "startElement"
    /\ last.outcome.type = "ok"
    /\ last.attrs = Reverse(Base("subevent"))
    /\ last.before = 3
    /\ mode = 4
    /\ sink = "DCH"

(***************************************************************************)
(* C5.  endElement first decrements the depth by one and then invokes the  *)
(* close callback of the tag at the new depth: endBetfair, endEvent or     *)
(* endSubEvent for the containers, no sink callback for a selection.  A    *)
(* close callback that raises finds the depth already decremented.         *)
(***************************************************************************)
C5_DecrementThenClose ==
    (last.op = "endElement" /\ last.outcome.type \notin {"AssertionError", "IndexError"})
        => /\ mode = last.before - 1
           /\ At(TAG_EXPECTED, mode) = last.name
           /\ last.invoked =
                IF last.name = "selection" THEN <<>>
                ELSE <<[cb |-> CloseCallback(last.name), args |-> <<>>]>>
           /\ (sink = "DCH" /\ last.name # "selection") =>
                /\ result # <<>>
                /\ result[Len(result)] = DCHEntry(CloseCallback(last.name), <<>>)

C5_Witness ==
    /\ last.op = "endElement"
    /\ last.name = "event"
    /\ last.before = 3
    /\ mode = 2
    /\ last.outcome.type = "NotImplementedError" \/ last.outcome.type = "ok"
    /\ last.invoked = <<[cb |-> "endEvent", args |-> <<>>]>>

(***************************************************************************)
(* C6.  startDocument succeeds only in the root state (depth 0) and then   *)
(* sets the depth to 1; in any other state, in particular a second time    *)
(* without an endDocument in between, it fails with an assertion error     *)
(* and leaves the depth unchanged.                                         *)
(***************************************************************************)
C6_StartDocumentOnlyAtRoot ==
    last.op = "startDocument"
        => /\ last.invoked = <<>>
           /\ IF last.before = 0
              THEN last.outcome.type = "ok" /\ mode = 1
              ELSE last.outcome.type = "AssertionError" /\ mode = last.before

C6_Witness ==
    /\ last.op = "startDocument"
    /\ last.before = 1
    /\ last.outcome.type = "AssertionError"
    /\ mode = 1

(***************************************************************************)
(* C7.  endDocument succeeds only when the depth is exactly 1 and then     *)
(* resets it to root; before startDocument, twice in a row, or while an    *)
(* element is still open it fails with an assertion error and leaves the   *)
(* depth unchanged.                                                        *)
(***************************************************************************)
C7_EndDocumentOnlyAtDepthOne ==
    last.op = "endDocument"
        => /\ last.invoked = <<>>
           /\ IF last.before = 1
              THEN last.outcome.type = "ok" /\ mode = 0
              ELSE last.outcome.type = "AssertionError" /\ mode = last.before

C7_Witness ==
    /\ last.op = "endDocument"
    /\ last.before = 3
    /\ last.outcome.type = "AssertionError"
    /\ mode = 3

StartedInsideSelection ==
    /\ last.op = "startElement"
    /\ \/ reader.phase = "aborted" /\ Innermost = "selection"
       \/ /\ reader.phase = "parsing"
          /\ Len(reader.open) >= 2
          /\ reader.open[Len(reader.open) - 1] = "selection"
          /\ reader.events[Len(reader.events)].kind = "start"

\* C9: such a start ends with UnExpectedTag(name, None) and no sink call
C9_StartInsideSelectionIsUnExpectedTag ==
    StartedInsideSelection
        => /\ last.outcome = UnExpectedTag(last.name, None)
           /\ last.invoked = <<>>

(***************************************************************************)
(* C10.  For a well-formed document that conforms to the grammar, the      *)
(* sink's calls correspond one to one and in order to the document's       *)
(* element events: to every open and every close event (as claimed); in    *)
(* the code to every open event and to the close events of betfair, event  *)
(* and subevent, the close of a selection reaching no sink callback.       *)
(***************************************************************************)
\* the element the grammar allows inside parent
GrammarChild(parent) ==
    CASE parent = None -> "betfair"
      [] parent = "betfair" -> "event"
      [] parent = "event" -> "subevent"
      [] parent = "subevent" -> "selection"
      [] OTHER -> None

SchemaOk(name, attrs) ==
    /\ name \in Tags
    /\ Len(attrs) = Len(Declared(name))
    /\ getNames(attrs) = DeclaredNames(name)
    /\ Undecodable(name, attrs) = {}

\* events[i..] continue a grammar-conforming document whose open elements
\* are stack
RECURSIVE ConformingFrom(_, _, _)
ConformingFrom(events, i, stack) ==
    IF i > Len(events) THEN TRUE
    ELSE LET e == events[i]
             top == IF stack = <<>> THEN None ELSE stack[Len(stack)]
         IN  IF e.kind = "start"
             THEN /\ stack = <<>> => i = 1
                  /\ e.name = GrammarChild(top)
                  /\ SchemaOk(e.name, e.attrs)
                  /\ ConformingFrom(events, i + 1, Append(stack, e.name))
             ELSE /\ e.name = top
                  /\ ConformingFrom(events, i + 1, SubSeq(stack, 1, Len(stack) - 1))

Conforming(events) == ConformingFrom(events, 1, <<>>)

Label(name) == IF name = "subevent" THEN "subEvent" ELSE name

\* what the recording sink holds for the callback of the event e
EntryOf(e) ==
    IF e.kind = "start"
    THEN <<"start", Label(e.name), DecodedArgs(e.name, e.attrs)>>
    ELSE <<"end", Label(e.name), None>>

Corresponds(res, events) ==
    /\ Len(res) = Len(events)
    /\ \A i \in DOMAIN events : res[i] = EntryOf(events[i])

IsSelectionEnd(e) == e.kind = "end" /\ e.name = "selection"

SinkEvents(events) == SelectSeq(events, LAMBDA e : ~IsSelectionEnd(e))

FedConforming ==
    /\ sink = "DCH"
    /\ reader.phase \in {"parsing", "done"}
    /\ Conforming(reader.events)

\* C10 as claimed: one sink call for every element event, in order
C10_EveryEventOneCallback == FedConforming => Corresponds(result, reader.events)

\* C10 as amended: one sink call for every element event but the close of a
\* selection, in order
C10_EveryEventButSelectionEnd ==
    FedConforming => Corresponds(result, SinkEvents(reader.events))

C10_Witness ==
    /\ FedConforming
    /\ reader.phase = "done"
    /\ \E i \in DOMAIN reader.events : IsSelectionEnd(reader.events[i])
    /\ Len(result) = 7

(***************************************************************************)
(* C11.  For every grammar-conforming document whose attribute sets match  *)
(* the schema with decodable values, feeding its events to a fresh handler *)
(* raises no error, and the depth is 1 immediately before endDocument.     *)
(***************************************************************************)
\* the events of the document up to and including the one of the last call
Attempted ==
    IF reader.phase # "aborted" THEN reader.events
    ELSE IF last.op = "startElement"
    THEN Append(reader.events,
                [kind |-> "start", name |-> last.name, attrs |-> last.attrs])
    ELSE IF last.op = "endElement"
    THEN Append(reader.events, [kind |-> "end", name |-> last.name, attrs |-> <<>>])
    ELSE reader.events

\* C11: a parse that the handler ended with an error was not fed a
\* conforming document; endDocument finds depth 1 and succeeds
C11_ConformingDocumentAccepted ==
    sink = "DCH" =>
        /\ reader.phase = "aborted" => ~Conforming(Attempted)
        /\ last.op = "endDocument" =>
              /\ last.before = 1
              /\ last.outcome.type = "ok"
              /\ reader.phase = "done"

C11_Witness ==
    /\ sink = "DCH"
    /\ reader.phase = "done"
    /\ last.op = "endDocument"
    /\ last.before = 1
    /\ Conforming(reader.events)
    /\ \E i \in DOMAIN reader.events :
          /\ reader.events[i].kind = "start"
          /\ reader.events[i].attrs = Reverse(Base("subevent"))
    /\ \E i \in DOMAIN reader.events : IsSelectionEnd(reader.events[i])

(***************************************************************************)
(* C12.  At every point of a parse the sink trace is properly nested:      *)
(* startEvent only between a startBetfair and its endBetfair,              *)
(* startSubEvent only between a startEvent and its endEvent, selection     *)
(* only between a startSubEvent and its endSubEvent, and the close         *)
(* callbacks come in the reverse order of their open callbacks.            *)
(***************************************************************************)
\* the entity inside which the sink may be told of the entity label
EnclosingLabel(label) ==
    CASE label = "betfair" -> None
      [] label = "event" -> "betfair"
      [] label = "subEvent" -> "event"
      [] label = "selection" -> "subEvent"

\* res[i..] continues a properly nested trace whose open entities are stack
RECURSIVE NestedFrom(_, _, _)
NestedFrom(res, i, stack) ==
    IF i > Len(res) THEN TRUE
    ELSE LET entry == res[i]
             top == IF stack = <<>> THEN None ELSE stack[Len(stack)]
         IN  IF entry[1] = "start"
             THEN /\ top = EnclosingLabel(entry[2])
                  /\ NestedFrom(res, i + 1,
                                IF entry[2] = "selection" THEN stack
                                ELSE Append(stack, entry[2]))
             ELSE /\ top = entry[2]
                  /\ NestedFrom(res, i + 1, SubSeq(stack, 1, Len(stack) - 1))

\* C12: what the recording sink holds is properly nested
C12_SinkTraceNested == sink = "DCH" => NestedFrom(result, 1, <<>>)

C12_Witness ==
    /\ sink = "DCH"
    /\ reader.phase = "done"
    /\ Len(result) >= 6
    /\ \E i, j \in DOMAIN result :
          /\ i < j
          /\ result[i] = <<"end", "event", None>>
          /\ result[j][1] = "start" /\ result[j][2] = "event"
    /\ result[Len(result)] = <<"end", "betfair", None>>

(***************************************************************************)
(* C13.  Every out-of-protocol call on the handler -- startElement or      *)
(* endElement before startDocument, startDocument while a document is      *)
(* open, endDocument with no document open or with an element still open,  *)
(* endElement with no element open -- fails with an assertion error; it is *)
(* neither reported through a Problem nor silently accepted.               *)
(***************************************************************************)
ProblemTypes == {"UnExpectedTag", "BrokenAttributes", "AttributeTypeError"}

\* the last call was made in a state in which the protocol does not allow it
OutOfProtocol ==
    \/ last.op \in {"startElement", "endElement"} /\ last.before = 0
    \/ last.op = "startDocument" /\ last.before >= 1
    \/ last.op = "endDocument" /\ (last.before = 0 \/ last.before >= 2)
    \/ last.op = "endElement" /\ last.before = 1

\* C13: an out-of-protocol call ends with an AssertionError
C13_OutOfProtocolAsserts ==
    OutOfProtocol
        => /\ last.outcome.type = "AssertionError"
           /\ mode = last.before

(***************************************************************************)
(* C14.  A startElement that fails with UnExpectedTag, BrokenAttributes or *)
(* AttributeTypeError leaves the depth unchanged, so the handler still     *)
(* expects the same tag: an element start with the correct tag and         *)
(* attributes made right after the failed call is accepted.                *)
(***************************************************************************)
\* the call before the last one was a startElement that raised a Problem
PrevStartFailed ==
    /\ reader.phase = "caller"
    /\ reader.prev.op = "startElement"
    /\ reader.prev.type \in ProblemTypes

\* C14: the next call finds the depth of the failed one, and a correct
\* element start is then accepted
C14_FailedStartKeepsDepth ==
    PrevStartFailed
        => /\ last.before = reader.prev.before
           /\ (/\ sink = "DCH"
               /\ last.op = "startElement"
               /\ last.before \in 1..4
               /\ last.name = ExpectedAt(last.before)
               /\ SchemaOk(last.name, last.attrs))
                  => /\ last.outcome.type = "ok"
                     /\ mode = last.before + 1

C14_Witness ==
    /\ PrevStartFailed
    /\ reader.prev.type = "AttributeTypeError"
    /\ reader.prev.before = 2
    /\ last.op = "startElement"
    /\ last.name = "event"
    /\ last.outcome.type = "ok"
    /\ mode = 3

(***************************************************************************)
(* C15.  startElement validates in a fixed order: the tag name first, the  *)
(* attribute name set second, the coercion of the values last.  An element *)
(* with a wrong tag name raises UnExpectedTag whatever its attributes; an  *)
(* element with the right tag and a wrong attribute set raises             *)
(* BrokenAttributes even when one of its values is undecodable.  (At the   *)
(* depths where a tag is expected; C9 is about the depth inside a          *)
(* selection.)                                                             *)
(***************************************************************************)
\* the attributes of attrs that name declared and whose value is undecodable
UndecodableGiven(name, attrs) ==
    {i \in DOMAIN attrs :
        /\ attrs[i].n \in DeclaredNames(name)
        /\ ~ParseOk(DeclaredType(name, attrs[i].n), attrs[i].v)}

DocumentAccepted ==
    /\ reader.phase = "caller"
    /\ last.op = "endDocument"
    /\ last.outcome.type = "ok"

\* C16 as claimed: an accepted document had exactly one root, a betfair
C16_ExactlyOneBetfairRoot == DocumentAccepted => reader.roots = <<"betfair">>

\* C16 as amended: every root of an accepted document was a betfair, and
\* endDocument at depth 1 succeeds however many roots there were
C16_EveryRootIsBetfair ==
    /\ DocumentAccepted => \A i \in DOMAIN reader.roots : reader.roots[i] = "betfair"
    /\ (reader.phase = "caller" /\ last.op = "endDocument" /\ last.before = 1)
          => DocumentAccepted

C16_Witness ==
    /\ DocumentAccepted
    /\ reader.roots = <<"betfair", "betfair">>
    /\ reader.open = <<>>

(***************************************************************************)
(* C17.  Inside a container the handler accepts zero or more sibling       *)
(* children: after an event, subevent or selection is closed the depth is  *)
(* back at the level where another element of that same tag is accepted,   *)
(* and a container may be closed without any child.                        *)
(***************************************************************************)
\* the call before the last one succeeded and was op(name)
PrevDid(op, names) ==
    /\ reader.phase = "caller"
    /\ sink = "DCH"
    /\ reader.prev.op = op
    /\ reader.prev.type = "ok"
    /\ reader.prev.name \in names

\* C17: a sibling after a close, and a close right after an open
C17_SiblingsAndEmptyContainers ==
    /\ PrevDid("endElement", {"event", "subevent", "selection"})
          => /\ last.before = reader.prev.before - 1
             /\ (/\ last.op = "startElement"
                 /\ last.name = reader.prev.name
                 /\ SchemaOk(last.name, last.attrs))
                    => /\ last.outcome.type = "ok"
                       /\ mode = last.before + 1
    /\ (/\ PrevDid("startElement", {"betfair", "event", "subevent"})
        /\ last.op = "endElement"
        /\ last.name = reader.prev.name)
          => /\ last.outcome.type = "ok"
             /\ mode = reader.prev.before

C17_Witness ==
    /\ PrevDid("endElement", {"event"})
    /\ reader.prev.before = 3
    /\ last.op = "startElement"
    /\ last.name = "event"
    /\ last.outcome.type = "ok"
    /\ mode = 3
    /\ Len(result) = 4

(***************************************************************************)
(* C18.  The default UserHandler raises NotImplementedError from each of   *)
(* its operations (startBetfair, startEvent, startSubEvent, selection,     *)
(* endBetfair, endEvent, endSubEvent), and when the handler drives such a  *)
(* sink the error propagates out of startElement / endElement.             *)
(***************************************************************************)
SinkOperations ==
    {"startBetfair", "startEvent", "startSubEvent", "selection",
     "endBetfair", "endEvent", "endSubEvent"}

\* C18: every operation raises, and a handler call that reaches the sink
\* ends with that error
C18_DefaultSinkRaises ==
    /\ \A cb \in SinkOperations :
          SinkOutcome("UserHandler", cb).type = "NotImplementedError"
    /\ sink = "UserHandler" =>
          /\ last.invoked # <<>> =>
                /\ last.outcome.type = "NotImplementedError"
                /\ last.invoked[1].cb \in SinkOperations
          /\ (StartedExpected /\ SchemaOk(last.name, last.attrs))
                => /\ last.invoked = <<[cb |-> OpenCallback(last.name),
                                        args |-> DecodedArgs(last.name, last.attrs)]>>
                   /\ mode = last.before
          /\ (/\ last.op = "endElement"
              /\ last.outcome.type \notin {"AssertionError", "IndexError"}
              /\ last.name # "selection")
                => /\ last.invoked = <<[cb |-> CloseCallback(last.name), args |-> <<>>]>>
                   /\ mode = last.before - 1
          /\ result = <<>>

C18_Witness ==
    /\ sink = "UserHandler"
    /\ last.op = "startElement"
    /\ last.before = 1
    /\ last.invoked = <<[cb |-> "startBetfair", args |-> <<"Soccer">>]>>
    /\ last.outcome = NotImplementedError("UserHandler.startBetfair(sport)")
    /\ mode = 1

(***************************************************************************)
(* C19.  For the end-to-end scenario document (one betfair, one event,     *)
(* one subevent, one selection) the sink receives exactly this call        *)
(* sequence and nothing else: startBetfair("Soccer"), startEvent("X",      *)
(* 2013-09-13), startSubEvent(1, "T", 2013-09-13, 12:43, 100),             *)
(* selection(1, "S", 1.1, 2, 1.2, 3, 1.3, 4, 1.4, 5, 1.5, 6, 1.6, 7),      *)
(* endSubEvent(), endEvent(), endBetfair().                                *)
(***************************************************************************)
StartOf(name, attrs) == [kind |-> "start", name |-> name, attrs |-> attrs]

EndOf(name) == [kind |-> "end", name |-> name, attrs |-> <<>>]

A(n, v) == [n |-> n, v |-> v]

ScenarioEvents ==
    <<StartOf("betfair", <<A("sport", "Soccer")>>),
      StartOf("event", <<A("name", "X"), A("date", "13/09/2013")>>),
      StartOf("subevent", <<A("id", "1"), A("title", "T"), A("date", "13/09/2013"),
                            A("time", "12:43"), A("TotalAmountMatched", "100")>>),
      StartOf("selection", <<A("id", "1"), A("name", "S"),
                             A("backp1", "1.1"), A("backs1", "2"),
                             A("layp1", "1.2"), A("lays1", "3"),
                             A("backp2", "1.3"), A("backs2", "4"),
                             A("layp2", "1.4"), A("lays2", "5"),
                             A("backp3", "1.5"), A("backs3", "6"),
                             A("layp3", "1.6"), A("lays3", "7")>>),
      EndOf("selection"), EndOf("subevent"), EndOf("event"), EndOf("betfair")>>

\* the decimal coefficient * 10^exponent
Dec(coefficient, exponent) ==
    [sign |-> 0, coefficient |-> coefficient, exponent |-> exponent]

Sep13 == [year |-> 2013, month |-> 9, day |-> 13]

ScenarioCalls ==
    <<<<"start", "betfair", <<"Soccer">>>>,
      <<"start", "event", <<"X", Sep13>>>>,
      <<"start", "subEvent", <<1, "T", Sep13, [hour |-> 12, minute |-> 43], 100>>>>,
      <<"start", "selection",
        <<1, "S", Dec(11, 0 - 1), Dec(2, 0), Dec(12, 0 - 1), Dec(3, 0),
          Dec(13, 0 - 1), Dec(4, 0), Dec(14, 0 - 1), Dec(5, 0),
          Dec(15, 0 - 1), Dec(6, 0), Dec(16, 0 - 1), Dec(7, 0)>>>>,
      <<"end", "subEvent", None>>,
      <<"end", "event", None>>,
      <<"end", "betfair", None>>>>

\* C19: the scenario document gives the recording sink exactly these calls
C19_ScenarioCallSequence ==
    (sink = "DCH" /\ reader.events = ScenarioEvents) => result = ScenarioCalls

C19_Witness ==
    /\ sink = "DCH"
    /\ reader.phase = "done"
    /\ reader.events = ScenarioEvents
    /\ result = ScenarioCalls

(***************************************************************************)
(* C20.  The selection schema declares exactly 14 attributes in this       *)
(* order: id, name, then backp1, backs1, layp1, lays1, backp2, backs2,     *)
(* layp2, lays2, backp3, backs3, layp3, lays3; this is the positional      *)
(* order passed to the sink and equals the money column order used by the  *)
(* database sink's insert.                                                 *)
(***************************************************************************)
SchemeOrder(tag) == [i \in DOMAIN tag.scheme |-> tag.scheme[i].name]

\* the last call was an accepted start of a selection
SelectionAccepted ==
    /\ last.op = "startElement"
    /\ last.name = "selection"
    /\ last.outcome.type = "ok"

\* C20: the declared order, the order of the sink's arguments and the order
\* of the insert's columns are one order
C20_SelectionOrder ==
    /\ Len(selection.scheme) = 14
    /\ SchemeOrder(selection) = Declared("selection")
    /\ SELECTION_MONEY_COLUMN_NAMES = SubSeq(SchemeOrder(selection), 3, 14)
    /\ SubSeq(SelectionInsertColumns, 4, 17) = SchemeOrder(selection)
    /\ SelectionAccepted =>
          LET args == last.invoked[1].args
              params == SelectionInsertArgs("betfair_id", "event_id", "subevent_id", args)
          IN  /\ last.invoked[1].cb = "selection"
              /\ args = DecodedArgs("selection", last.attrs)
              /\ Len(params) = Len(SelectionInsertColumns)
              /\ \A i \in 4..17 :
                    params[i] = ParseVal(DeclaredType("selection", SelectionInsertColumns[i]),
                                         Get(last.attrs, SelectionInsertColumns[i]))

C20_Witness ==
    /\ SelectionAccepted
    /\ sink = "DCH"
    /\ last.before = 4
    /\ last.attrs = Base("selection")
    /\ last.invoked[1].args[3] = Dec(11, 0 - 1)
    /\ last.invoked[1].args[14] = Dec(7, 0)

(***************************************************************************)
(* C21.  A BrokenAttributes error reports its unexpected and missed name   *)
(* lists in a deterministic (sorted) order: attribute maps with the same   *)
(* name set give the same rendered message whatever the attribute order.   *)
(***************************************************************************)
\* the characters of the names, in code point order
CharOrder == "0123456789ABCDEFGHIJKLMNOPQRSTUVWXYZabcdefghijklmnopqrstuvwxyz"

CharRank(c) == CHOOSE i \in 1..Len(CharOrder) : Ch(CharOrder, i) = c

\* a < b for strings, as sorted() compares them
RECURSIVE StrLess(_, _)
StrLess(a, b) ==
    IF Len(b) = 0 THEN FALSE
    ELSE IF Len(a) = 0 THEN TRUE
    ELSE IF Ch(a, 1) # Ch(b, 1) THEN CharRank(Ch(a, 1)) < CharRank(Ch(b, 1))
    ELSE StrLess(SubSeq(a, 2, Len(a)), SubSeq(b, 2, Len(b)))

IsSorted(l) == \A i \in 1..(Len(l) - 1) : StrLess(l[i], l[i + 1])

\* sorted(S)
SortedListing(S) == CHOOSE l \in Listings(S) : IsSorted(l)

\* C21: both lists are sorted, so the message depends on the name set alone
C21_BrokenAttributesSorted ==
    (last.op = "startElement" /\ last.outcome.type = "BrokenAttributes")
        => /\ IsSorted(last.outcome.unexpected)
           /\ IsSorted(last.outcome.missed)
           /\ ProblemText(last.outcome) =
                ProblemText(BrokenAttributes(
                    SortedListing(getNames(last.attrs) \ DeclaredNames(last.name)),
                    SortedListing(DeclaredNames(last.name) \ getNames(last.attrs))))

(***************************************************************************)
(* C22.  For every coercer (String, Int, Money, Date, Time) and every raw  *)
(* string, parse either returns the typed value or raises                  *)
(* AttributeTypeError carrying (attribute name, coercer type name, raw     *)
(* value); no ValueError or decimal.InvalidOperation escapes, and the      *)
(* String coercer returns its input unchanged.                             *)
(***************************************************************************)
\* the raw strings of the model that the conversion of each type accepts
Convertible(type_name) ==
    CASE type_name = "String" -> RawStrings
      [] type_name = "Int" -> {"123", "+5", "-5", "007", "2"}
      [] type_name = "Money" ->
            {"123", "+5", "-5", "007", "1.5", "123.54", "1.", "-.5", "2"}
      [] type_name = "Date" -> {"13/09/2013", "1/9/2013", "29/02/2012"}
      [] type_name = "Time" -> {"12:43", "1:5", "0:00"}

\* C22: the typed value or an AttributeTypeError, nothing else
C22_CoercersRaiseOnlyTypeError ==
    last.op = "parse"
        => /\ last.outcome.type \in {"ok", "AttributeTypeError"}
           /\ last.outcome.type = "ok" <=> last.raw \in Convertible(last.type_name)
           /\ last.outcome.type = "AttributeTypeError"
                => last.outcome = AttributeTypeError(last.name, last.type_name, last.raw)
           /\ last.type_name = "String"
                => last.outcome.type = "ok" /\ last.returned = last.raw
           /\ (last.type_name = "Int" /\ last.raw = "123") => last.returned = 123
           /\ (last.type_name = "Int" /\ last.raw = "-5") => last.returned = 0 - 5
           /\ (last.type_name = "Date" /\ last.raw = "13/09/2013")
                => last.returned = [year |-> 2013, month |-> 9, day |-> 13]
           /\ (last.type_name = "Time" /\ last.raw = "12:43")
                => last.returned = [hour |-> 12, minute |-> 43]

C22_Witness ==
    /\ last.op = "parse"
    /\ last.outcome = AttributeTypeError("name", "Money", "1.2.3")

(***************************************************************************)
(* C26.  Money decoding is exact decimal, not binary floating point: the   *)
(* Money coercer applied to "123.54" yields a value equal to decimal       *)
(* 123.54, and adding 0.01 to it equals 123.55 exactly.                    *)
(***************************************************************************)
\* C26: 123.54 is 12354 * 10^-2, and 123.54 + 0.01 is 123.55
C26_MoneyIsExactDecimal ==
    /\ (last.op = "parse" /\ last.type_name = "Money" /\ last.raw = "123.54")
          => /\ last.outcome.type = "ok"
             /\ last.returned = Dec(12354, 0 - 2)
             /\ DecimalEq(DecimalAdd(last.returned, Dec(1, 0 - 2)), Dec(12355, 0 - 2))
    /\ (last.op = "add" /\ last.raw = "123.54" /\ last.attrs[2] = Dec(1, 0 - 2))
          => /\ last.returned = Dec(12355, 0 - 2)
             /\ DecimalEq(last.returned, Dec(12355, 0 - 2))

C26_Witness ==
    /\ last.op = "add"
    /\ last.raw = "123.54"
    /\ last.attrs = <<Dec(12354, 0 - 2), Dec(1, 0 - 2)>>
    /\ DecimalEq(last.returned, Dec(12355, 0 - 2))

(***************************************************************************)
(* C23.  After a complete startDocument ... endDocument cycle the handler  *)
(* is in the same root state as a freshly constructed one: a startDocument *)
(* that follows succeeds, and an endDocument that follows (with no         *)
(* startDocument) fails with an assertion error.                           *)
(***************************************************************************)
\* the call before the last one was an endDocument that succeeded
PrevEndedDocument ==
    /\ reader.phase = "caller"
    /\ reader.prev.op = "endDocument"
    /\ reader.prev.type = "ok"

\* C23: the call after the cycle finds the mode of a fresh handler
C23_RootStateAfterCycle ==
    PrevEndedDocument
        => /\ last.before = MODE_ROOT
           /\ last.op = "startDocument"
                => last.outcome.type = "ok" /\ mode = MODE_ROOT + 1
           /\ last.op = "endDocument"
                => last.outcome.type = "AssertionError" /\ mode = MODE_ROOT
           /\ last.op = "startElement"
                => last.outcome = UnExpectedTag(last.name, None) /\ mode = MODE_ROOT

C23_Witness ==
    /\ PrevEndedDocument
    /\ last.op = "startDocument"
    /\ last.outcome.type = "ok"
    /\ mode = 1
    /\ sink = "DCH"
    /\ Len(result) >= 2

ProblemRendered ==
    /\ reader.phase = "locator"
    /\ last.op = "startElement"
    /\ last.outcome.type \in ProblemTypes
    /\ last.rendered # None

\* 'Line: <L> Column: <C> Problem: ' for the position p
LinePrefix(p) ==
    "Line: " \o FormatNat(p.line) \o " Column: "
        \o (IF p.column = <<>> THEN "None" ELSE FormatNat(p.column[1]))
        \o " Problem: "

\* the specific message of each kind of Problem, from its own fields
SpecificMessage(p) ==
    CASE p.type = "UnExpectedTag" ->
            Join(<<"unexpected tag '", FormatName(p.name), "', expected '",
                   FormatName(p.expected), "'">>, "")
      [] p.type = "BrokenAttributes" ->
            Join(<<"broken attributes, unexpected=[", Join(p.unexpected, ", "),
                   "], missed=[", Join(p.missed, ", "), "]">>, "")
      [] p.type = "AttributeTypeError" ->
            Join(<<"parse attribute '", p.name, "' (expected type: '", p.type_name,
                   "') invalid value '", p.value, "'">>, "")

\* C25: the message shows the position of the locator when the Problem was
\* raised, wherever the locator is when the message is rendered
C25_ProblemRendersCapturedPosition ==
    /\ (reader.phase = "locator" /\ last.op = "startElement"
            /\ last.outcome.type \in ProblemTypes)
          => last.captured = last.at
    /\ ProblemRendered
          => /\ last.rendered = LinePrefix(last.at) \o SpecificMessage(last.outcome)
             /\ (last.outcome = UnExpectedTag("bad", "betfair")
                    /\ last.at = Position(1, <<>>))
                  => last.rendered =
                        "Line: 1 Column: None Problem: unexpected tag 'bad', expected 'betfair'"
             /\ (last.outcome = AttributeTypeError("date", "Date", "fail")
                    /\ last.at = Position(2, <<7>>))
                  => last.rendered =
                        "Line: 2 Column: 7 Problem: parse attribute 'date' (expected type: 'Date') invalid value 'fail'"
             /\ (last.outcome = BrokenAttributes(<<"bad">>, <<"sport">>)
                    /\ last.at = Position(12, <<10>>))
                  => last.rendered =
                        "Line: 12 Column: 10 Problem: broken attributes, unexpected=[bad], missed=[sport]"

C25_Witness ==
    /\ ProblemRendered
    /\ last.outcome = AttributeTypeError("date", "Date", "fail")
    /\ last.at = Position(2, <<7>>)
    /\ reader.locator = Position(12, <<10>>)
    /\ last.rendered =
          "Line: 2 Column: 7 Problem: parse attribute 'date' (expected type: 'Date') invalid value 'fail'"

(***************************************************************************)
(* C27.  Attributes are decoded one by one in schema declaration order and *)
(* decoding stops at the first failure: the AttributeTypeError names the   *)
(* first declared attribute whose value is undecodable, and no coercer of  *)
(* a later-declared attribute is run.                                      *)
(***************************************************************************)
\* the position in the declaration of the first attribute of attrs whose
\* value is undecodable
FirstUndecodable(name, attrs) ==
    CHOOSE i \in DOMAIN Declared(name) :
        /\ Declared(name)[i] \in Undecodable(name, attrs)
        /\ \A j \in 1..(i - 1) : Declared(name)[j] \notin Undecodable(name, attrs)

\* C27: the error names the first undecodable attribute, and the coercers
\* that ran are those of the attributes declared up to it
C27_FailFastInDeclarationOrder ==
    (/\ StartedExpected
     /\ getNames(last.attrs) = DeclaredNames(last.name)
     /\ Undecodable(last.name, last.attrs) # {})
        => LET first == FirstUndecodable(last.name, last.attrs)
           IN  /\ last.outcome.type = "AttributeTypeError"
               /\ last.outcome.name = Declared(last.name)[first]
               /\ last.ran = SubSeq(Declared(last.name), 1, first)
               /\ last.invoked = <<>>

C27_Witness ==
    /\ StartedExpected
    /\ last.name = "subevent"
    /\ getNames(last.attrs) = DeclaredNames(last.name)
    /\ Cardinality(Undecodable(last.name, last.attrs)) = 2
    /\ last.outcome = AttributeTypeError("date", "Date", "fail")
    /\ last.ran = <<"id", "title", "date">>

(***************************************************************************)
(* SpecStore: a driver builds a StoreHandler on an empty database and has  *)
(* the XML reader parse one well-formed document into an                   *)
(* ExpatContentHandler over it.  The driver is either the 'parse' action   *)
(* of amtt.py ("cli": StoreHandler(connection, full=False), then           *)
(* make_parser and parser.parse, with no call of start() or end()), or a   *)
(* caller of the API ("api": full set or not, start() called before the    *)
(* parse or not, end() after it or not).  The reader keeps the names of    *)
(* the open elements and the keys of the rows inserted for them.           *)
(***************************************************************************)
StoreInputs ==
    {<<t, Base(t)>> : t \in Tags}
        \cup {<<"subevent", SetVal(Base("subevent"), 1, "2")>>,
              <<"event", SetVal(Base("event"), 2, "fail")>>}

Drivers == {"cli", "api"}

\* the values of full the driver constructs its StoreHandler with
FullOf(driver) == IF driver = "cli" THEN {FALSE} ELSE BOOLEAN

InitStore ==
    /\ mode = MODE_ROOT
    /\ sink = "StoreHandler"
    /\ \E driver \in Drivers :
         /\ result \in {NewStore(full) : full \in FullOf(driver)}
         /\ reader = [phase |-> "idle", open |-> <<>>, events |-> <<>>,
                      keys |-> <<>>, driver |-> driver]
    /\ last = NoCall

\* a call of the driver on the StoreHandler itself, ending as c
Driven(op, c) ==
    Call(op, None, <<>>,
         [mode |-> mode, result |-> c.store, outcome |-> c.outcome,
          ran |-> <<>>, invoked |-> <<>>])

DriverStart ==
    /\ reader.driver = "api"
    /\ reader.phase = "idle"
    /\ ~result.cursor
    /\ Driven("start", StoreStart(result))
    /\ UNCHANGED reader

DriverEnd ==
    /\ reader.driver = "api"
    /\ reader.phase = "done"
    /\ result.commits = 0
    /\ Driven("end", StoreEnd(result))
    /\ UNCHANGED reader

\* the key of the row the statement executed last has added
InsertedKey(before, after) ==
    LET e == after.executed[Len(after.executed)]
    IN  Row(before, e.query, e.params).key

StoreStartElement ==
    /\ reader.phase = "parsing"
    /\ reader.open # <<>> \/ reader.events = <<>>
    /\ Len(reader.events) < MaxEvents
    /\ \E in \in StoreInputs :
         \E r \in startElement(mode, sink, result, in[1], in[2]) :
            /\ Call("startElement", in[1], in[2], r)
            /\ reader' =
                  IF r.outcome.type = "ok"
                  THEN [reader EXCEPT
                           !.open = Append(@, in[1]),
                           !.events = Append(@, [kind |-> "start", name |-> in[1],
                                                 attrs |-> in[2]]),
                           !.keys = Append(@, InsertedKey(result, r.result))]
                  ELSE [reader EXCEPT !.phase = "aborted"]

StoreEndElement ==
    /\ reader.phase = "parsing"
    /\ reader.open # <<>>
    /\ Len(reader.events) < MaxEvents
    /\ LET name == reader.open[Len(reader.open)]
           r == endElement(mode, sink, result, name)
       IN  /\ Call("endElement", name, <<>>, r)
           /\ reader' =
                 IF r.outcome.type = "ok"
                 THEN [reader EXCEPT
                          !.open = SubSeq(@, 1, Len(@) - 1),
                          !.events = Append(@, [kind |-> "end", name |-> name,
                                                attrs |-> <<>>]),
                          !.keys = SubSeq(@, 1, Len(@) - 1)]
                 ELSE [reader EXCEPT !.phase = "aborted"]

NextStore ==
    \/ DriverStart
    \/ ReaderStartDocument
    \/ StoreStartElement
    \/ StoreEndElement
    \/ ReaderEndDocument
    \/ DriverEnd

SpecStore == InitStore /\ [][NextStore]_vars

(***************************************************************************)
(* C28.  Under any sequence of handler calls, out-of-protocol ones         *)
(* included, the depth counter never becomes negative, and a close         *)
(* callback (endBetfair, endEvent, endSubEvent) is invoked only when a     *)
(* matching open callback was invoked earlier and has not yet been closed. *)
(***************************************************************************)
\* how many of the first n entries of res are kind (start / end) of label
Count(res, n, kind, label) ==
    Cardinality({i \in 1..n : res[i][1] = kind /\ res[i][2] = label})

\* every close recorded in res follows an open of its entity still unclosed
ClosesMatchOpens(res) ==
    \A i \in DOMAIN res :
        res[i][1] = "end"
            => Count(res, i - 1, "start", res[i][2]) > Count(res, i - 1, "end", res[i][2])

\* C28: the depth is never negative and no close comes without its open
C28_DepthNeverNegative ==
    /\ mode >= 0
    /\ sink = "DCH" => ClosesMatchOpens(result)

(***************************************************************************)
(* C29.  If a sink callback raises, the exception propagates to the caller *)
(* and the depth matches the elements whose open callback completed: a     *)
(* raising open callback leaves the depth unchanged, and a raising close   *)
(* callback also leaves the depth unchanged (as claimed); in the code a    *)
(* raising close callback finds the depth already decremented.             *)
(***************************************************************************)
\* the last call invoked a sink callback that raised
CallbackRaised(op) ==
    /\ last.op = op
    /\ last.invoked # <<>>
    /\ last.outcome.type = "NotImplementedError"

Prefix(key, n) == SubSeq(key, 1, n)

\* every statement executed gives all the ancestor ids of its table
AncestorIdsGiven ==
    \A k \in DOMAIN result.executed :
        Given(result.executed[k].params, result.executed[k].query)

\* the row inserted for each open element lies under the row inserted for
\* the element that encloses it
RowsUnderOpenParents ==
    \A i \in 2..Len(reader.keys) :
        Prefix(reader.keys[i], i - 1) = reader.keys[i - 1]

\* an id is stored exactly while its element is open
StoredWhileOpen(id, name) ==
    (id # <<>>) <=> (\E i \in DOMAIN reader.open : reader.open[i] = name)

C30_InsertsCarryOpenAncestors ==
    /\ AncestorIdsGiven
    /\ RowsUnderOpenParents
    /\ StoredWhileOpen(result.betfair, "betfair")
    /\ StoredWhileOpen(result.event, "event")
    /\ StoredWhileOpen(result.subevent, "subevent")

\* the selection of a subevent of the second event has been inserted
C30_Witness ==
    /\ last.op = "startElement"
    /\ last.name = "selection"
    /\ last.outcome.type = "ok"
    /\ result.executed[Len(result.executed)].params[2] = <<2>>
    /\ reader.keys[Len(reader.keys)] = <<1, 2, 1, 1, "S">>
    /\ <<1, 1>> \in result.rows.event

(***************************************************************************)
(* C31.  In the command-line 'parse' action every sink callback the        *)
(* validator makes on StoreHandler finds the cursor open: start() has been *)
(* called before the first startBetfair and end() (commit) is called after *)
(* the parse, so that the cursor assertions of the start callbacks never   *)
(* fail and the parsed rows are committed.                                 *)
(***************************************************************************)
\* the last call invoked a callback of the sink
SinkCalled == last.op \in {"startElement", "endElement"} /\ last.invoked # <<>>

C31_CliCallbacksFindCursorOpen ==
    reader.driver = "cli" =>
        /\ SinkCalled => result.cursor /\ last.outcome.type # "AssertionError"
        /\ reader.phase = "done" => result.commits = 1

(***************************************************************************)
(* C32.  A StoreHandler constructed as the command-line entry point does   *)
(* (full=False) accepts every callback sequence the validator produces for *)
(* a grammar-conforming document, documents with subevent and selection    *)
(* elements included, without an assertion failure.  Stated for a handler  *)
(* whose cursor is open, so that only the assertions on full can fail.     *)
(***************************************************************************)
C32_NotFullAcceptsConformingDocument ==
    (~result.full /\ result.cursor /\ SinkCalled)
        => last.outcome.type # "AssertionError"

(***************************************************************************)
(* SpecExecute: StoreHandler._execute, one step at a time, as called by    *)
(* create_tables, drop_tables, compile_inserts and clear on one handler.   *)
(* result is the database behind the connection (the tables that exist,    *)
(* the statements prepared in the session, the tables at the start of the  *)
(* open transaction, the commits and rollbacks made), reader is the        *)
(* handler and the frame of _execute (its position pc, the statements its  *)
(* loop has still to take, its local cursor, the pending exception), and   *)
(* last is the record of the current call.  A statement fails when the     *)
(* database refuses it: CREATE of a table that exists or whose parent is   *)
(* missing, DELETE from or PREPARE on a missing table, PREPARE of a name   *)
(* already prepared.  DROP TABLE IF EXISTS fails when another table still  *)
(* references the table.                                                   *)
(***************************************************************************)
MaxCalls == 2

Tables == <<"betfair", "event", "subevent", "selection">>

Statement(verb, k) == [verb |-> verb, table |-> Tables[k]]

DROP == [k \in 1..4 |-> Statement("DROP", k)]

CREATE == [k \in 1..4 |-> Statement("CREATE", k)]

PREPARE_INSERT == [k \in 1..4 |-> Statement("PREPARE", k)]

CLEAR == [k \in 1..4 |-> Statement("DELETE", k)]

\* queries if full else queries[:2]
Sliced(queries, full) == IF full THEN queries ELSE SubSeq(queries, 1, 2)

\* self._queries after StoreHandler.__init__: drop and clear are reversed()
\* iterators, held here as the statements they have still to yield
Queries(full) ==
    [create |-> Sliced(CREATE, full),
     compile_inserts |-> Sliced(PREPARE_INSERT, full),
     clear |-> Reverse(Sliced(CLEAR, full)),
     drop |-> Reverse(DROP)]

\* the keys of self._queries that hold an iterator, not a list
Iterators == {"drop", "clear"}

Methods == {"create", "drop", "compile_inserts", "clear"}

\* the table the foreign key of table references
ParentOf(table) ==
    CASE table = "event" -> {"betfair"}
      [] table = "subevent" -> {"event"}
      [] table = "selection" -> {"subevent"}
      [] OTHER -> {}

\* does the database accept the statement q
Accepts(db, q) ==
    CASE q.verb = "CREATE" ->
            q.table \notin db.tables /\ ParentOf(q.table) \subseteq db.tables
      [] q.verb = "DROP" ->
            \A t \in db.tables : q.table \notin ParentOf(t) \/ q.table \notin db.tables
      [] q.verb = "DELETE" -> q.table \in db.tables
      [] q.verb = "PREPARE" -> q.table \in db.tables /\ q.table \notin db.prepared

\* the database after the accepted statement q
Applied(db, q) ==
    CASE q.verb = "CREATE" -> [db EXCEPT !.tables = @ \cup {q.table}]
      [] q.verb = "DROP" -> [db EXCEPT !.tables = @ \ {q.table}]
      [] q.verb = "DELETE" -> db
      [] q.verb = "PREPARE" -> [db EXCEPT !.prepared = @ \cup {q.table}]

\* the tables the database can hold when the handler is built: any of the
\* four names, made by an earlier run or by someone else
Schemas == SUBSET {Tables[k] : k \in 1..4}

\* a loop that goes on after a statement that failed
AfterStatementSwallows(ok) == "loop"

\* where _execute goes after cursor.execute(query): on in the loop, or to
\* the except clause
AfterStatement(ok) == IF ok THEN "loop" ELSE "except"

InitExecute ==
    /\ mode = MODE_ROOT
    /\ sink = "StoreHandler"
    /\ \E tables \in Schemas :
         result = [tables |-> tables, prepared |-> {}, begun |-> tables,
                   commits |-> 0, rollbacks |-> 0]
    /\ \E full \in BOOLEAN :
         reader = [phase |-> "execute", full |-> full, queries |-> Queries(full),
                   pc |-> "idle", key |-> None, todo |-> <<>>,
                   cursor |-> "unbound", raised |-> FALSE, calls |-> 0]
    /\ last = [op |-> "init", key |-> None, given |-> <<>>, executed |-> <<>>,
               commits |-> 0, rollbacks |-> 0, closes |-> 0,
               outcome |-> Ok, before |-> {}]

\* create_tables / drop_tables / compile_inserts / clear:
\* self._execute(self._queries[key])
EnterExecute ==
    /\ reader.pc = "idle"
    /\ reader.calls < MaxCalls
    /\ \E key \in Methods :
         /\ reader' = [reader EXCEPT !.pc = "cursor", !.key = key,
                                     !.todo = reader.queries[key],
                                     !.cursor = "unbound", !.raised = FALSE,
                                     !.calls = @ + 1]
         /\ last' = [op |-> "_execute", key |-> key, given |-> reader.queries[key],
                     executed |-> <<>>, commits |-> 0, rollbacks |-> 0,
                     closes |-> 0, outcome |-> None, before |-> result.tables]
    /\ result' = [result EXCEPT !.begun = result.tables]
    /\ UNCHANGED <<mode, sink>>

\* cursor = self._conn.cursor()
GetCursor ==
    /\ reader.pc = "cursor"
    /\ reader' = [reader EXCEPT !.pc = "loop", !.cursor = "open"]
    /\ UNCHANGED <<mode, sink, result, last>>

\* for query in queries: cursor.execute(query)
ExecuteQuery ==
    /\ reader.pc = "loop"
    /\ reader.todo # <<>>
    /\ LET q == Head(reader.todo)
           ok == Accepts(result, q)
           rest == Tail(reader.todo)
       IN  /\ result' = IF ok THEN Applied(result, q) ELSE result
           /\ reader' = [reader EXCEPT
                            !.pc = AfterStatement(ok),
                            !.todo = rest,
                            !.queries[reader.key] =
                                IF reader.key \in Iterators THEN rest ELSE @]
           /\ last' = [last EXCEPT
                          !.executed = Append(@, [query |-> q, ok |-> ok])]
    /\ UNCHANGED <<mode, sink>>

\* self._conn.commit()
Commit ==
    /\ reader.pc = "loop"
    /\ reader.todo = <<>>
    /\ result' = [result EXCEPT !.commits = @ + 1, !.begun = result.tables]
    /\ reader' = [reader EXCEPT !.pc = "finally"]
    /\ last' = [last EXCEPT !.commits = @ + 1]
    /\ UNCHANGED <<mode, sink>>

\* except BaseException: self._conn.rollback(); raise
Rollback ==
    /\ reader.pc = "except"
    /\ result' = [result EXCEPT !.rollbacks = @ + 1, !.tables = result.begun]
    /\ reader' = [reader EXCEPT !.pc = "finally", !.raised = TRUE]
    /\ last' = [last EXCEPT !.rollbacks = @ + 1]
    /\ UNCHANGED <<mode, sink>>

\* finally: cursor.close(); the call returns, or raises what was raised
CloseCursor ==
    /\ reader.pc = "finally"
    /\ reader' = [reader EXCEPT !.pc = "idle", !.cursor = "closed"]
    /\ last' = [last EXCEPT
                   !.closes = @ + 1,
                   !.outcome = IF reader.raised THEN [type |-> "DatabaseError"]
                               ELSE Ok]
    /\ UNCHANGED <<mode, sink, result>>

NextExecute ==
    EnterExecute \/ GetCursor \/ ExecuteQuery \/ Commit \/ Rollback \/ CloseCursor

SpecExecute == InitExecute /\ [][NextExecute]_vars

(***************************************************************************)
(* C33.  StoreHandler._execute runs its statements in order in one         *)
(* transaction: it commits exactly once iff every statement succeeded,     *)
(* rolls back and re-raises on the first failing statement without         *)
(* executing later ones, and closes the cursor in both cases.              *)
(***************************************************************************)
\* the call of _execute on record has returned or raised
Returned == last.op = "_execute" /\ reader.pc = "idle"

\* a statement of the call has failed
SomeFailed == \E i \in DOMAIN last.executed : ~last.executed[i].ok

\* every statement given to the call has run and succeeded
AllSucceeded ==
    /\ Len(last.executed) = Len(last.given)
    /\ ~SomeFailed

\* the statements run are the first of those given, in their order, and
\* none runs after one that failed
RunInOrder ==
    /\ Len(last.executed) <= Len(last.given)
    /\ \A i \in DOMAIN last.executed :
          /\ last.executed[i].query = last.given[i]
          /\ i < Len(last.executed) => last.executed[i].ok

C33_ExecuteIsOneTransaction ==
    /\ RunInOrder
    /\ last.commits + last.rollbacks <= 1
    /\ last.commits = 1 => AllSucceeded
    /\ last.rollbacks = 1 => SomeFailed
    /\ Returned =>
          /\ last.commits = 1 <=> AllSucceeded
          /\ last.rollbacks = 1 <=> SomeFailed
          /\ SomeFailed <=> last.outcome.type = "DatabaseError"
          /\ AllSucceeded <=> last.outcome.type = "ok"
          /\ SomeFailed => result.tables = last.before
          /\ last.closes = 1
          /\ reader.cursor = "closed"

\* create_tables on a full handler failed at its third statement, after
\* two that succeeded: rolled back, raised, cursor closed
C33_Witness ==
    /\ Returned
    /\ last.key = "create"
    /\ Len(last.given) = 4
    /\ Len(last.executed) = 3
    /\ last.executed[1].ok /\ last.executed[2].ok /\ ~last.executed[3].ok
    /\ last.rollbacks = 1 /\ last.commits = 0 /\ last.closes = 1
    /\ last.outcome.type = "DatabaseError"
    /\ result.tables = last.before
    /\ "betfair" \notin result.tables

====
